---------------------------- MODULE Spec2Model ----------------------------
(***************************************************************************)
(* A model of internal/providers/testing/provider_mock.go: the MockProvider *)
(* test double of the provider plugin protocol, its configured-gate, its    *)
(* override / canned / default dispatch, and its default plan algorithm.    *)
(***************************************************************************)
EXTENDS Integers, Sequences, FiniteSets, TLC

(***************************************************************************)
(* Bounds                                                                   *)
(***************************************************************************)
\* The number of provider calls one behaviour issues.
MaxCalls == 2
\* The number of diagnostics loading the configuration reports in one validate run.
MaxDiags == 3

(***************************************************************************)
(* Go nil and byte slices                                                   *)
(***************************************************************************)
\* A nil pointer (a canned *Response that is not set) or a nil func (no override).
Nil == [k |-> "nil"]
\* A non-nil override function; what it returns is chosen by the test.
Func == [k |-> "func"]
\* A nil []byte.
NoBytes == <<>>

(***************************************************************************)
(* cty types and values                                                     *)
(***************************************************************************)
String == [t |-> "string"]
Number == [t |-> "number"]
Bool == [t |-> "bool"]
List(ety) == [t |-> "list", ety |-> ety]
Set(ety) == [t |-> "set", ety |-> ety]
Map(ety) == [t |-> "map", ety |-> ety]
Object(atys) == [t |-> "object", atys |-> atys]

\* cty.Tuple and cty.DynamicPseudoType; the model has unknown values of these types
\* only.
Tuple(etys) == [t |-> "tuple", etys |-> etys]
DynamicPseudoType == [t |-> "dynamic"]

\* cty.NilVal, the zero cty.Value of a response that was never filled in.
NilVal == [k |-> "NilVal"]
NullVal(ty) == [k |-> "null", ty |-> ty]
UnknownVal(ty) == [k |-> "unknown", ty |-> ty]
StringVal(s) == [k |-> "string", v |-> s]
NumberIntVal(n) == [k |-> "number", v |-> n]
BoolVal(b) == [k |-> "bool", v |-> b]
\* ListVal / ListValEmpty: the elements in order, with the element type.
ListVal(ety, elems) == [k |-> "list", ety |-> ety, elems |-> elems]
\* SetVal / SetValEmpty: the elements as a set, with the element type.
SetVal(ety, elems) == [k |-> "set", ety |-> ety, elems |-> elems]
\* MapVal / MapValEmpty: a function from keys to elements.
MapVal(ety, elems) == [k |-> "map", ety |-> ety, elems |-> elems]
ObjectVal(attrs) == [k |-> "object", attrs |-> attrs]

IsNull(v) == v.k \in {"null", "NilVal"}
IsKnown(v) == v.k # "unknown"

RECURSIVE Type(_)
Type(v) ==
  CASE v.k = "NilVal" -> [t |-> "NilType"]
    [] v.k \in {"null", "unknown"} -> v.ty
    [] v.k = "string" -> String
    [] v.k = "number" -> Number
    [] v.k = "bool" -> Bool
    [] v.k = "list" -> List(v.ety)
    [] v.k = "set" -> Set(v.ety)
    [] v.k = "map" -> Map(v.ety)
    [] v.k = "object" -> Object([n \in DOMAIN v.attrs |-> Type(v.attrs[n])])

(***************************************************************************)
(* cty paths                                                                *)
(***************************************************************************)
GetAttrStep(name) == [step |-> "GetAttr", name |-> name]
IndexStep(key) == [step |-> "Index", key |-> key]

\* GetAttrStep.Apply and IndexStep.Apply: one step of a path into a value, or an error.
StepApply(s, val) ==
  IF IsNull(val) THEN [err |-> TRUE, val |-> NilVal]
  ELSE IF s.step = "GetAttr" THEN
    IF val.k = "unknown" THEN
      IF val.ty.t = "object" /\ s.name \in DOMAIN val.ty.atys
      THEN [err |-> FALSE, val |-> UnknownVal(val.ty.atys[s.name])]
      ELSE [err |-> TRUE, val |-> NilVal]
    ELSE IF val.k = "object" /\ s.name \in DOMAIN val.attrs
      THEN [err |-> FALSE, val |-> val.attrs[s.name]]
      ELSE [err |-> TRUE, val |-> NilVal]
  ELSE
    CASE s.key.k = "number" ->
           IF val.k = "unknown" /\ val.ty.t = "list"
           THEN [err |-> FALSE, val |-> UnknownVal(val.ty.ety)]
           ELSE IF val.k = "list" /\ (s.key.v + 1) \in DOMAIN val.elems
           THEN [err |-> FALSE, val |-> val.elems[s.key.v + 1]]
           ELSE [err |-> TRUE, val |-> NilVal]
      [] s.key.k = "string" ->
           IF val.k = "unknown" /\ val.ty.t = "map"
           THEN [err |-> FALSE, val |-> UnknownVal(val.ty.ety)]
           ELSE IF val.k = "map" /\ s.key.v \in DOMAIN val.elems
           THEN [err |-> FALSE, val |-> val.elems[s.key.v]]
           ELSE [err |-> TRUE, val |-> NilVal]
      \* the key of a set element is the element itself: "key value not number or string"
      [] OTHER -> [err |-> TRUE, val |-> NilVal]

\* cty.Path.Apply: the steps in order, stopping at the first error.
RECURSIVE PathApply(_, _)
PathApply(path, val) ==
  IF path = <<>> THEN [err |-> FALSE, val |-> val]
  ELSE LET r == StepApply(Head(path), val)
       IN IF r.err THEN r ELSE PathApply(Tail(path), r.val)

(***************************************************************************)
(* configschema                                                             *)
(***************************************************************************)
Attribute(ty, required, optional, computed) ==
  [Type |-> ty, Required |-> required, Optional |-> optional, Computed |-> computed]
NoAttribute == [k |-> "nil"]

\* Block.ImpliedType: the object type of a block's attributes and nested blocks.
RECURSIVE ImpliedType(_)
ImpliedType(block) ==
  Object([n \in (DOMAIN block.Attributes) \cup (DOMAIN block.BlockTypes) |->
           IF n \in DOMAIN block.Attributes THEN block.Attributes[n].Type
           ELSE LET nb == block.BlockTypes[n]
                IN CASE nb.Nesting = "NestingList" -> List(ImpliedType(nb.Block))
                     [] nb.Nesting = "NestingSet" -> Set(ImpliedType(nb.Block))
                     [] OTHER -> ImpliedType(nb.Block)])

\* Block.AttributeByPath: the attribute schema a path leads to, through nested
\* blocks; index steps are passed over; nil when no attribute is on the path.
RECURSIVE AttributeByPath(_, _)
AttributeByPath(block, path) ==
  IF path = <<>> THEN NoAttribute
  ELSE LET s == Head(path)
       IN IF s.step # "GetAttr" THEN AttributeByPath(block, Tail(path))
          ELSE IF s.name \in DOMAIN block.Attributes THEN block.Attributes[s.name]
          ELSE IF s.name \in DOMAIN block.BlockTypes
            THEN AttributeByPath(block.BlockTypes[s.name].Block, Tail(path))
          ELSE NoAttribute


\* convert.Convert between the types of this model: a null or unknown value takes
\* the target type, a value already of the target type is kept, anything else fails.
Convert(val, ty) ==
  IF val.k = "null" THEN [err |-> FALSE, val |-> NullVal(ty)]
  ELSE IF val.k = "unknown" THEN [err |-> FALSE, val |-> UnknownVal(ty)]
  ELSE IF val.k # "NilVal" /\ Type(val) = ty THEN [err |-> FALSE, val |-> val]
  ELSE [err |-> TRUE, val |-> NilVal]

\* Block.CoerceValue: the value shaped to the block's implied type. Attributes the
\* value lacks are filled with null when optional or computed; a missing nested
\* block becomes an empty collection. On an error the result is an unknown value
\* of the implied type.
RECURSIVE CoerceValue(_, _)
CoerceValue(block, in) ==
  LET impliedType == ImpliedType(block)
      fail == [err |-> TRUE, val |-> UnknownVal(impliedType)]
  IN
  IF IsNull(in) THEN [err |-> FALSE, val |-> NullVal(impliedType)]
  ELSE IF ~IsKnown(in) THEN [err |-> FALSE, val |-> UnknownVal(impliedType)]
  ELSE IF in.k # "object" THEN fail
  ELSE IF \E n \in DOMAIN in.attrs :
            n \notin (DOMAIN block.Attributes) \cup (DOMAIN block.BlockTypes) THEN fail
  ELSE
    LET attr(n) ==
          IF n \in DOMAIN in.attrs THEN Convert(in.attrs[n], block.Attributes[n].Type)
          ELSE IF block.Attributes[n].Computed \/ block.Attributes[n].Optional
            THEN [err |-> FALSE, val |-> NullVal(block.Attributes[n].Type)]
          ELSE [err |-> TRUE, val |-> NilVal]
        nested(n) ==
          LET nb == block.BlockTypes[n]
              ety == ImpliedType(nb.Block)
              coll == in.attrs[n]
          IN
          CASE nb.Nesting = "NestingList" ->
                 IF n \notin DOMAIN in.attrs THEN [err |-> FALSE, val |-> ListVal(ety, <<>>)]
                 ELSE IF IsNull(coll) THEN [err |-> FALSE, val |-> NullVal(List(ety))]
                 ELSE IF ~IsKnown(coll) THEN [err |-> FALSE, val |-> UnknownVal(List(ety))]
                 ELSE IF coll.k # "list" THEN [err |-> TRUE, val |-> NilVal]
                 ELSE LET es == [i \in DOMAIN coll.elems |-> CoerceValue(nb.Block, coll.elems[i])]
                      IN [err |-> \E i \in DOMAIN es : es[i].err,
                          val |-> ListVal(ety, [i \in DOMAIN es |-> es[i].val])]
            [] nb.Nesting = "NestingSet" ->
                 IF n \notin DOMAIN in.attrs THEN [err |-> FALSE, val |-> SetVal(ety, {})]
                 ELSE IF IsNull(coll) THEN [err |-> FALSE, val |-> NullVal(Set(ety))]
                 ELSE IF ~IsKnown(coll) THEN [err |-> FALSE, val |-> UnknownVal(Set(ety))]
                 ELSE IF coll.k # "set" THEN [err |-> TRUE, val |-> NilVal]
                 ELSE LET es == {CoerceValue(nb.Block, e) : e \in coll.elems}
                      IN [err |-> \E e \in es : e.err,
                          val |-> SetVal(ety, {e.val : e \in es})]
            [] OTHER ->
                 IF n \notin DOMAIN in.attrs THEN [err |-> FALSE, val |-> NullVal(ety)]
                 ELSE CoerceValue(nb.Block, coll)
        part(n) == IF n \in DOMAIN block.Attributes THEN attr(n) ELSE nested(n)
        names == (DOMAIN block.Attributes) \cup (DOMAIN block.BlockTypes)
    IN IF \E n \in names : part(n).err THEN fail
       ELSE [err |-> FALSE, val |-> ObjectVal([n \in names |-> part(n).val])]

\* msgpack.Marshal(val, ty): the strict conformance check of the wire encoding; it
\* fails unless the value is of the given type at every depth.
MarshalErr(val, ty) == val.k = "NilVal" \/ Type(val) # ty

(***************************************************************************)
(* cty.Transform and the two callbacks the mock passes to it                *)
(***************************************************************************)
\* The plan callback without its second case (an optional+computed value gone from
\* set to unset).
PlanCallback_NoSetToUnset(schema, config, path, v) ==
  IF ~IsKnown(v) THEN v
  ELSE LET attrSchema == AttributeByPath(schema.Block, path)
       IN IF attrSchema = NoAttribute THEN v
          ELSE LET configVal == PathApply(path, config)
               IN IF configVal.err THEN v
                  ELSE IF attrSchema.Computed /\ ~attrSchema.Optional /\ IsNull(v)
                    THEN UnknownVal(Type(v))
                  ELSE v

\* The plan callback taking a path it cannot apply to the config for a null config
\* value.
PlanCallback_ConfigErrAsNull(schema, config, path, v) ==
  IF ~IsKnown(v) THEN v
  ELSE LET attrSchema == AttributeByPath(schema.Block, path)
       IN IF attrSchema = NoAttribute THEN v
          ELSE LET configVal == PathApply(path, config)
               IN IF attrSchema.Computed /\ ~attrSchema.Optional /\ IsNull(v)
                    THEN UnknownVal(Type(v))
                  ELSE IF attrSchema.Computed /\ attrSchema.Optional /\ ~IsNull(v)
                          /\ (configVal.err \/ IsNull(configVal.val))
                    THEN UnknownVal(Type(v))
                  ELSE v

\* The plan callback whose second case forgets to test Optional: every computed
\* value that is set while its config value is null becomes unknown.
PlanCallback_AnyComputedUnset(schema, config, path, v) ==
  IF ~IsKnown(v) THEN v
  ELSE LET attrSchema == AttributeByPath(schema.Block, path)
       IN IF attrSchema = NoAttribute THEN v
          ELSE LET configVal == PathApply(path, config)
               IN IF configVal.err THEN v
                  ELSE IF attrSchema.Computed /\ ~attrSchema.Optional /\ IsNull(v)
                    THEN UnknownVal(Type(v))
                  ELSE IF attrSchema.Computed /\ ~IsNull(v) /\ IsNull(configVal.val)
                    THEN UnknownVal(Type(v))
                  ELSE v

\* The callback of the default plan (the func literal given to cty.Transform in
\* PlanResourceChange).
PlanCallback(schema, config, path, v) ==
  IF ~IsKnown(v) THEN v
  ELSE LET attrSchema == AttributeByPath(schema.Block, path)
       IN IF attrSchema = NoAttribute THEN v
          ELSE LET configVal == PathApply(path, config)
               IN IF configVal.err THEN v
                  ELSE IF attrSchema.Computed /\ ~attrSchema.Optional /\ IsNull(v)
                    THEN UnknownVal(Type(v))
                  ELSE IF attrSchema.Computed /\ attrSchema.Optional /\ ~IsNull(v)
                          /\ IsNull(configVal.val)
                    THEN UnknownVal(Type(v))
                  ELSE v

\* The apply callback without its default case: an unknown of a type that is not
\* string, number, bool, map or list is returned as it is.
ApplyCallback_NoDefaultCase(path, v) ==
  IF ~IsKnown(v) THEN
    LET ty == Type(v)
    IN CASE ty = String -> StringVal("")
         [] ty = Number -> NumberIntVal(0)
         [] ty = Bool -> BoolVal(FALSE)
         [] ty.t = "map" -> MapVal(ty.ety, <<>>)
         [] ty.t = "list" -> ListVal(ty.ety, <<>>)
         [] OTHER -> v
  ELSE v

\* The apply callback with a case for sets: an unknown set becomes the empty set.
ApplyCallback_SetEmpty(path, v) ==
  IF ~IsKnown(v) THEN
    LET ty == Type(v)
    IN CASE ty = String -> StringVal("")
         [] ty = Number -> NumberIntVal(0)
         [] ty = Bool -> BoolVal(FALSE)
         [] ty.t = "map" -> MapVal(ty.ety, <<>>)
         [] ty.t = "list" -> ListVal(ty.ety, <<>>)
         [] ty.t = "set" -> SetVal(ty.ety, {})
         [] OTHER -> NullVal(ty)
  ELSE v

\* The callback of the default apply (the func literal given to cty.Transform in
\* ApplyResourceChange).
ApplyCallback(path, v) ==
  IF ~IsKnown(v) THEN
    LET ty == Type(v)
    IN CASE ty = String -> StringVal("")
         [] ty = Number -> NumberIntVal(0)
         [] ty = Bool -> BoolVal(FALSE)
         [] ty.t = "map" -> MapVal(ty.ety, <<>>)
         [] ty.t = "list" -> ListVal(ty.ety, <<>>)
         [] OTHER -> NullVal(ty)
  ELSE v

\* The callback a Transform call was given: the plan's (with the schema and the
\* config it closes over) or the apply's.
Callback(cb, path, v) ==
  IF cb.fn = "plan" THEN PlanCallback(cb.schema, cb.config, path, v)
  ELSE ApplyCallback(path, v)

\* cty.Transform: the callback applied to every nested value, children first, each
\* with its path; null and unknown values are not descended into.
RECURSIVE Transform(_, _, _)
Transform(path, val, cb) ==
  LET newVal ==
        CASE val.k = "list" ->
               [val EXCEPT !.elems = [i \in DOMAIN val.elems |->
                  Transform(Append(path, IndexStep(NumberIntVal(i - 1))), val.elems[i], cb)]]
          [] val.k = "set" ->
               [val EXCEPT !.elems = {Transform(Append(path, IndexStep(e)), e, cb) : e \in val.elems}]
          [] val.k = "map" ->
               [val EXCEPT !.elems = [key \in DOMAIN val.elems |->
                  Transform(Append(path, IndexStep(StringVal(key))), val.elems[key], cb)]]
          [] val.k = "object" ->
               [val EXCEPT !.attrs = [n \in DOMAIN val.attrs |->
                  Transform(Append(path, GetAttrStep(n)), val.attrs[n], cb)]]
          [] OTHER -> val
  IN Callback(cb, path, newVal)

(***************************************************************************)
(* Legacy state decoding: hcl2shim.HCL2ValueFromFlatmap, ctyjson.Unmarshal  *)
(***************************************************************************)
\* A flatmap is a function from keys to strings. A dotted key "tags.env" is kept as
\* the sequence of its segments, <<"tags", "env">>.
Flatmap(m) == [k |-> "flatmap", m |-> m]
UnknownVariableValue == "74D93920-ED26-11E3-AC10-0800200C9A66"

\* strconv.Atoi on the count strings of the model: the number, or -1 for an error.
Atoi(str) ==
  CASE str = "0" -> 0 [] str = "1" -> 1 [] str = "2" -> 2 [] str = "3" -> 3 [] OTHER -> -1
\* strconv.Itoa on an index.
Itoa(i) ==
  CASE i = 0 -> "0" [] i = 1 -> "1" [] i = 2 -> "2" [] OTHER -> "3"

IsPrefix(pre, key) == Len(pre) <= Len(key) /\ SubSeq(key, 1, Len(pre)) = pre

RECURSIVE hcl2ValueFromFlatmapValue(_, _, _)
hcl2ValueFromFlatmapValue(m, key, ty) ==
  LET ok(v) == [err |-> FALSE, val |-> v]
      fail == [err |-> TRUE, val |-> NilVal]
      has(kk) == kk \in DOMAIN m
      containerUnknown == has(key) /\ m[key] = UnknownVariableValue
  IN
  CASE ty.t = "string" ->
         IF ~has(key) THEN ok(NullVal(ty))
         ELSE IF m[key] = UnknownVariableValue THEN ok(UnknownVal(ty))
         ELSE ok(StringVal(m[key]))
    [] ty.t = "number" ->
         IF ~has(key) THEN ok(NullVal(ty))
         ELSE IF m[key] = UnknownVariableValue THEN ok(UnknownVal(ty))
         ELSE IF Atoi(m[key]) < 0 THEN fail
         ELSE ok(NumberIntVal(Atoi(m[key])))
    [] ty.t = "bool" ->
         IF ~has(key) THEN ok(NullVal(ty))
         ELSE IF m[key] = UnknownVariableValue THEN ok(UnknownVal(ty))
         ELSE IF m[key] \notin {"true", "false"} THEN fail
         ELSE ok(BoolVal(m[key] = "true"))
    [] ty.t = "object" ->
         LET parts == [n \in DOMAIN ty.atys |->
                         hcl2ValueFromFlatmapValue(m, Append(key, n), ty.atys[n])]
         IN IF \E n \in DOMAIN parts : parts[n].err THEN fail
            ELSE ok(ObjectVal([n \in DOMAIN parts |-> parts[n].val]))
    [] ty.t = "map" ->
         IF containerUnknown THEN ok(UnknownVal(ty))
         ELSE IF ~has(Append(key, "%")) THEN ok(NullVal(ty))
         ELSE IF m[Append(key, "%")] = UnknownVariableValue THEN ok(UnknownVal(ty))
         ELSE LET keys == {fullKey[Len(key) + 1] : fullKey \in
                             {fk \in DOMAIN m : IsPrefix(key, fk) /\ Len(fk) = Len(key) + 1
                                                 /\ fk[Len(key) + 1] # "%"}}
                  parts == [kk \in keys |->
                              hcl2ValueFromFlatmapValue(m, Append(key, kk), ty.ety)]
              IN IF \E kk \in keys : parts[kk].err THEN fail
                 ELSE ok(MapVal(ty.ety, [kk \in keys |-> parts[kk].val]))
    [] ty.t = "list" ->
         IF containerUnknown THEN ok(UnknownVal(ty))
         ELSE IF ~has(Append(key, "#")) THEN ok(NullVal(ty))
         ELSE IF m[Append(key, "#")] = UnknownVariableValue THEN ok(UnknownVal(ty))
         ELSE LET count == Atoi(m[Append(key, "#")])
              IN IF count < 0 THEN fail
                 ELSE LET parts == [i \in 1..count |->
                            hcl2ValueFromFlatmapValue(m, Append(key, Itoa(i - 1)), ty.ety)]
                      IN IF \E i \in 1..count : parts[i].err THEN fail
                         ELSE ok(ListVal(ty.ety, [i \in 1..count |-> parts[i].val]))
    [] ty.t = "set" ->
         IF containerUnknown THEN ok(UnknownVal(ty))
         ELSE IF ~has(Append(key, "#")) THEN ok(NullVal(ty))
         ELSE IF m[Append(key, "#")] = UnknownVariableValue THEN ok(UnknownVal(ty))
         ELSE LET seen == {SubSeq(fk, 1, Len(key) + 1) : fk \in
                             {fk \in DOMAIN m : IsPrefix(key, fk) /\ Len(fk) > Len(key)
                                                 /\ fk # Append(key, "#")}}
                  parts == [kk \in seen |-> hcl2ValueFromFlatmapValue(m, kk, ty.ety)]
              IN IF \E kk \in seen : parts[kk].err THEN fail
                 ELSE ok(SetVal(ty.ety, {parts[kk].val : kk \in seen}))
    [] OTHER -> fail

\* hcl2shim.flatmapValueFromHCL2Value: the entries a value contributes under a key.
\* A null contributes nothing; an unknown is written as UnknownVariableValue (for a
\* whole object, on each of its attributes); a map ends with its count under "%",
\* a list or set with its count under "#"; the elements of a set are numbered in
\* the order the set is iterated.
RECURSIVE flatmapValueFromHCL2Value(_, _, _)
RECURSIVE flatmapValueFromHCL2Elems(_, _, _)
flatmapValueFromHCL2Value(key, val, ty) ==
  CASE ty.t \in {"string", "number", "bool"} ->
         IF val.k = "unknown" THEN key :> UnknownVariableValue
         ELSE IF IsNull(val) THEN <<>>
         ELSE key :> val.v
    [] ty.t = "object" ->
         IF IsNull(val) THEN <<>>
         ELSE flatmapValueFromHCL2Elems(
                key, [n \in DOMAIN ty.atys |->
                        [segment |-> n, ty |-> ty.atys[n],
                         val |-> IF val.k = "unknown" THEN UnknownVal(ty.atys[n])
                                 ELSE val.attrs[n]]],
                DOMAIN ty.atys)
    [] ty.t = "map" ->
         IF IsNull(val) THEN <<>>
         ELSE IF val.k = "unknown" THEN Append(key, "%") :> UnknownVariableValue
         ELSE flatmapValueFromHCL2Elems(
                key, [kk \in DOMAIN val.elems |->
                        [segment |-> kk, ty |-> ty.ety, val |-> val.elems[kk]]],
                DOMAIN val.elems)
              @@ (Append(key, "%") :> Itoa(Cardinality(DOMAIN val.elems)))
    [] ty.t = "list" ->
         IF IsNull(val) THEN <<>>
         ELSE IF val.k = "unknown" THEN Append(key, "#") :> UnknownVariableValue
         ELSE flatmapValueFromHCL2Elems(
                key, [i \in DOMAIN val.elems |->
                        [segment |-> Itoa(i - 1), ty |-> ty.ety, val |-> val.elems[i]]],
                DOMAIN val.elems)
              @@ (Append(key, "#") :> Itoa(Len(val.elems)))
    [] ty.t = "set" ->
         IF IsNull(val) THEN <<>>
         ELSE IF val.k = "unknown" THEN Append(key, "#") :> UnknownVariableValue
         ELSE LET n == Cardinality(val.elems)
                  order == CHOOSE f \in [1..n -> val.elems] :
                             \A i, j \in 1..n : i # j => f[i] # f[j]
              IN flatmapValueFromHCL2Elems(
                   key, [i \in 1..n |->
                           [segment |-> Itoa(i - 1), ty |-> ty.ety, val |-> order[i]]],
                   1..n)
                 @@ (Append(key, "#") :> Itoa(n))
    [] OTHER -> <<>>
\* The entries of the elements `elems` of a container, for the indices in `todo`.
flatmapValueFromHCL2Elems(key, elems, todo) ==
  IF todo = {} THEN <<>>
  ELSE LET i == CHOOSE i \in todo : TRUE
       IN flatmapValueFromHCL2Value(Append(key, elems[i].segment), elems[i].val, elems[i].ty)
          @@ flatmapValueFromHCL2Elems(key, elems, todo \ {i})

\* hcl2shim.FlatmapValueFromHCL2: the flatmap of an object value; nil for null.
FlatmapValueFromHCL2(v, ty) ==
  IF IsNull(v) THEN Nil ELSE Flatmap(flatmapValueFromHCL2Value(<<>>, v, ty))

\* hcl2shim.HCL2ValueFromFlatmap: a nil map decodes to null, any other map is
\* decoded attribute by attribute against the (object) type.
HCL2ValueFromFlatmap(fm, ty) ==
  IF fm = Nil THEN [err |-> FALSE, val |-> NullVal(ty)]
  ELSE hcl2ValueFromFlatmapValue(fm.m, <<>>, ty)

\* RawStateJSON is kept as the document the bytes spell: NoJSON for no bytes,
\* [j |-> "invalid"] for bytes that are not JSON, else a tree of JSON values.
NoJSON == [j |-> "empty"]

\* ctyjson.Unmarshal: the document decoded against the type; absent object keys
\* are null, a key the type does not have or a value of the wrong shape is an error.
RECURSIVE Unmarshal(_, _)
Unmarshal(doc, ty) ==
  LET ok(v) == [err |-> FALSE, val |-> v]
      fail == [err |-> TRUE, val |-> NilVal]
  IN
  CASE doc.j \in {"invalid", "empty"} -> fail
    [] doc.j = "null" -> ok(NullVal(ty))
    [] ty.t = "string" -> IF doc.j = "string" THEN ok(StringVal(doc.v)) ELSE fail
    [] ty.t = "number" -> IF doc.j = "number" THEN ok(NumberIntVal(doc.v)) ELSE fail
    [] ty.t = "bool" -> IF doc.j = "bool" THEN ok(BoolVal(doc.v)) ELSE fail
    [] ty.t = "object" ->
         IF doc.j # "object" THEN fail
         ELSE IF \E n \in DOMAIN doc.members : n \notin DOMAIN ty.atys THEN fail
         ELSE LET parts == [n \in DOMAIN ty.atys |->
                              IF n \in DOMAIN doc.members
                              THEN Unmarshal(doc.members[n], ty.atys[n])
                              ELSE ok(NullVal(ty.atys[n]))]
              IN IF \E n \in DOMAIN parts : parts[n].err THEN fail
                 ELSE ok(ObjectVal([n \in DOMAIN parts |-> parts[n].val]))
    [] ty.t = "map" ->
         IF doc.j # "object" THEN fail
         ELSE LET parts == [n \in DOMAIN doc.members |-> Unmarshal(doc.members[n], ty.ety)]
              IN IF \E n \in DOMAIN parts : parts[n].err THEN fail
                 ELSE ok(MapVal(ty.ety, [n \in DOMAIN parts |-> parts[n].val]))
    [] ty.t \in {"list", "set"} ->
         IF doc.j # "array" THEN fail
         ELSE LET parts == [i \in DOMAIN doc.elems |-> Unmarshal(doc.elems[i], ty.ety)]
              IN IF \E i \in DOMAIN parts : parts[i].err THEN fail
                 ELSE IF ty.t = "list"
                   THEN ok(ListVal(ty.ety, [i \in DOMAIN parts |-> parts[i].val]))
                   ELSE ok(SetVal(ty.ety, {parts[i].val : i \in DOMAIN parts}))
    [] OTHER -> fail

(***************************************************************************)
(* Diagnostics                                                              *)
(***************************************************************************)
\* fmt.Errorf("Configure not called before <op> %q", r.TypeName), as a diagnostic.
ConfigureNotCalled(opName, typeName) ==
  [severity |-> "error", summary |-> "Configure not called before",
   op |-> opName, typeName |-> typeName]
\* fmt.Errorf("no schema found for %q", typeName), as a diagnostic.
NoSchemaFound(typeName) ==
  [severity |-> "error", summary |-> "no schema found for", typeName |-> typeName]
\* The diagnostic of an error a library call returned (Marshal, CoerceValue, the
\* state decoders).
ErrDiag(what) == [severity |-> "error", summary |-> what]
WarnDiag(what) == [severity |-> "warning", summary |-> what]

IsGateDiag(d) == d.summary = "Configure not called before"
HasGateDiag(ds) == \E i \in DOMAIN ds : IsGateDiag(ds[i])
HasError(ds) == \E i \in DOMAIN ds : ds[i].severity = "error"

(***************************************************************************)
(* The schema and the values the tests of this model use                    *)
(***************************************************************************)
NoNames == <<>>

\* disk { uuid = computed string, label = optional+computed string }, list-nested
DiskBlock ==
  [Attributes |-> [uuid |-> Attribute(String, FALSE, FALSE, TRUE),
                   label |-> Attribute(String, FALSE, TRUE, TRUE)],
   BlockTypes |-> NoNames]
\* nic { mac = computed string }, set-nested
NicBlock ==
  [Attributes |-> [mac |-> Attribute(String, FALSE, FALSE, TRUE)], BlockTypes |-> NoNames]
\* test_thing { id = computed, name = optional+computed, ami = optional, disk, nic }
ThingBlock ==
  [Attributes |-> [id |-> Attribute(String, FALSE, FALSE, TRUE),
                   name |-> Attribute(String, FALSE, TRUE, TRUE),
                   ami |-> Attribute(String, FALSE, TRUE, FALSE)],
   BlockTypes |-> [disk |-> [Nesting |-> "NestingList", Block |-> DiskBlock],
                   nic |-> [Nesting |-> "NestingSet", Block |-> NicBlock]]]
\* test_data { q = required string, out = computed string }
DataBlock ==
  [Attributes |-> [q |-> Attribute(String, TRUE, FALSE, FALSE),
                   out |-> Attribute(String, FALSE, FALSE, TRUE)],
   BlockTypes |-> NoNames]
\* provider { region = optional string }
ProviderBlock ==
  [Attributes |-> [region |-> Attribute(String, FALSE, TRUE, FALSE)], BlockTypes |-> NoNames]

TestSchema ==
  [Provider |-> [Block |-> ProviderBlock],
   DataSources |-> [test_data |-> [Block |-> DataBlock]],
   ResourceTypes |-> [test_thing |-> [Block |-> ThingBlock]]]

ThingType == ImpliedType(ThingBlock)
DiskType == ImpliedType(DiskBlock)
NicType == ImpliedType(NicBlock)

Abc == <<"a", "b", "c">>
Privates == {NoBytes, Abc}
TypeNames == {"test_thing", "unknown_type"}

Thing(id, name, ami, disk, nic) ==
  ObjectVal([id |-> id, name |-> name, ami |-> ami, disk |-> disk, nic |-> nic])
Disk(uuid, label) == ObjectVal([uuid |-> uuid, label |-> label])
Nic(mac) == ObjectVal([mac |-> mac])

\* A state of test_thing with every attribute set.
ThingState ==
  Thing(StringVal("x"), StringVal("x"), StringVal("x"),
        ListVal(DiskType, <<Disk(StringVal("x"), StringVal("x"))>>),
        SetVal(NicType, {Nic(StringVal("x"))}))
\* A configuration of test_thing that sets ami and one disk block, and nothing else.
ThingConfig ==
  Thing(NullVal(String), NullVal(String), StringVal("x"),
        ListVal(DiskType, <<Disk(NullVal(String), NullVal(String))>>), SetVal(NicType, {}))
\* The proposed new state for ThingConfig over ThingState.
ThingProposed ==
  Thing(NullVal(String), StringVal("x"), StringVal("x"),
        ListVal(DiskType, <<Disk(NullVal(String), StringVal("x"))>>), SetVal(NicType, {}))
\* A planned state with unknowns left for the apply.
ThingPlanned ==
  Thing(UnknownVal(String), UnknownVal(String), StringVal("x"),
        ListVal(DiskType, <<Disk(UnknownVal(String), UnknownVal(String))>>),
        UnknownVal(Set(NicType)))

(***************************************************************************)
(* Requests and responses (package providers)                               *)
(***************************************************************************)
NoDiags == <<>>
\* The zero value of each response struct, as `resp` is on entry to a method.
ZeroValidateProviderConfigResponse == [PreparedConfig |-> NilVal, Diagnostics |-> NoDiags]
ZeroDiagnosticsResponse == [Diagnostics |-> NoDiags]
ZeroUpgradeResourceStateResponse == [UpgradedState |-> NilVal, Diagnostics |-> NoDiags]
ZeroReadResourceResponse == [NewState |-> NilVal, Private |-> NoBytes, Diagnostics |-> NoDiags]
ZeroPlanResourceChangeResponse ==
  [PlannedState |-> NilVal, PlannedPrivate |-> NoBytes, Diagnostics |-> NoDiags]
ZeroApplyResourceChangeResponse ==
  [NewState |-> NilVal, Private |-> NoBytes, Diagnostics |-> NoDiags]
ZeroImportResourceStateResponse == [ImportedResources |-> <<>>, Diagnostics |-> NoDiags]
ZeroMoveResourceStateResponse ==
  [TargetState |-> NilVal, TargetPrivate |-> NoBytes, Diagnostics |-> NoDiags]
ZeroReadDataSourceResponse == [State |-> NilVal, Diagnostics |-> NoDiags]
ZeroCallFunctionResponse == [Result |-> NilVal, Err |-> Nil]

\* The zero value of a request struct, as the ...Request fields are after construction.
ZeroRequest == [k |-> "zero"]

\* An error value (the result of Stop and Close).
Error(what) == [k |-> "error", msg |-> what]

(***************************************************************************)
(* What a test puts into the mock: canned responses and override results    *)
(***************************************************************************)
\* The canned response a test stores in the ...Response field of an operation.
Canned(opName) ==
  CASE opName = "ValidateProviderConfig" ->
         [PreparedConfig |-> ObjectVal([region |-> StringVal("canned")]),
          Diagnostics |-> <<WarnDiag("canned")>>]
    [] opName = "UpgradeResourceState" ->
         [UpgradedState |-> ThingState, Diagnostics |-> <<WarnDiag("canned")>>]
    [] opName = "ConfigureProvider" -> [Diagnostics |-> <<ErrDiag("canned: configure failed")>>]
    [] opName = "ReadResource" ->
         [NewState |-> ObjectVal([id |-> StringVal("x")]), Private |-> Abc,
          Diagnostics |-> <<WarnDiag("canned")>>]
    [] opName = "PlanResourceChange" ->
         [PlannedState |-> ThingState, PlannedPrivate |-> <<"c">>,
          Diagnostics |-> <<WarnDiag("canned")>>]
    [] opName = "ApplyResourceChange" ->
         [NewState |-> ThingState, Private |-> <<"c">>, Diagnostics |-> <<WarnDiag("canned")>>]
    [] opName = "ImportResourceState" ->
         [ImportedResources |-> <<[TypeName |-> "test_thing",
                                   State |-> ObjectVal([id |-> StringVal("x")])]>>,
          Diagnostics |-> <<WarnDiag("canned")>>]
    [] opName = "MoveResourceState" ->
         [TargetState |-> ThingState, TargetPrivate |-> <<"c">>,
          Diagnostics |-> <<WarnDiag("canned")>>]
    [] opName = "ReadDataSource" ->
         [State |-> ObjectVal([q |-> StringVal("x"), out |-> StringVal("x")]),
          Diagnostics |-> <<WarnDiag("canned")>>]
    [] opName = "CallFunction" -> [Result |-> StringVal("canned"), Err |-> Nil]
    [] OTHER -> [Diagnostics |-> <<WarnDiag("canned")>>]

\* The responses an override function (a ...Fn field) of an operation may return.
FnResponses(opName) ==
  CASE opName = "ValidateProviderConfig" ->
         {[PreparedConfig |-> ObjectVal([region |-> StringVal("fn")]),
           Diagnostics |-> <<WarnDiag("override")>>]}
    [] opName = "UpgradeResourceState" ->
         {[UpgradedState |-> NullVal(ThingType), Diagnostics |-> <<WarnDiag("override")>>]}
    [] opName = "ConfigureProvider" ->
         {[Diagnostics |-> NoDiags], [Diagnostics |-> <<ErrDiag("override: configure failed")>>]}
    [] opName = "ReadResource" ->
         {[NewState |-> NullVal(ThingType), Private |-> <<"f">>,
           Diagnostics |-> <<WarnDiag("override")>>]}
    [] opName = "PlanResourceChange" ->
         {[PlannedState |-> ThingPlanned, PlannedPrivate |-> <<"f">>,
           Diagnostics |-> <<WarnDiag("override")>>]}
    [] opName = "ApplyResourceChange" ->
         {[NewState |-> ThingState, Private |-> <<"f">>,
           Diagnostics |-> <<ErrDiag("override: apply failed")>>]}
    [] opName = "ImportResourceState" ->
         {[ImportedResources |-> <<>>, Diagnostics |-> <<WarnDiag("override")>>]}
    [] opName = "MoveResourceState" ->
         {[TargetState |-> NullVal(ThingType), TargetPrivate |-> <<"f">>,
           Diagnostics |-> <<WarnDiag("override")>>]}
    [] opName = "ReadDataSource" ->
         {[State |-> NullVal(ImpliedType(DataBlock)), Diagnostics |-> <<WarnDiag("override")>>]}
    [] opName = "CallFunction" -> {[Result |-> StringVal("fn"), Err |-> Nil]}
    [] opName = "Stop" -> {Nil, Error("override: cannot stop")}
    [] OTHER -> {[Diagnostics |-> <<WarnDiag("override")>>]}

(***************************************************************************)
(* MockProvider                                                             *)
(***************************************************************************)
\* A MockProvider as a test constructs it: every ...Called flag false, every
\* ...Request zero, the schema response as given, and the overrides and canned
\* responses either all set or all nil.
NewMock(schemaResp, withFn, withCanned) ==
  LET fn == IF withFn THEN Func ELSE Nil
      canned(opName) == IF withCanned THEN Canned(opName) ELSE Nil
  IN
  [GetProviderSchemaCalled |-> FALSE,
   GetProviderSchemaResponse |-> schemaResp,
   ValidateProviderConfigCalled |-> FALSE,
   ValidateProviderConfigResponse |-> canned("ValidateProviderConfig"),
   ValidateProviderConfigRequest |-> ZeroRequest,
   ValidateProviderConfigFn |-> fn,
   ValidateResourceConfigCalled |-> FALSE,
   ValidateResourceConfigResponse |-> canned("ValidateResourceConfig"),
   ValidateResourceConfigRequest |-> ZeroRequest,
   ValidateResourceConfigFn |-> fn,
   ValidateDataResourceConfigCalled |-> FALSE,
   ValidateDataResourceConfigResponse |-> canned("ValidateDataResourceConfig"),
   ValidateDataResourceConfigRequest |-> ZeroRequest,
   ValidateDataResourceConfigFn |-> fn,
   UpgradeResourceStateCalled |-> FALSE,
   UpgradeResourceStateResponse |-> canned("UpgradeResourceState"),
   UpgradeResourceStateRequest |-> ZeroRequest,
   UpgradeResourceStateFn |-> fn,
   ConfigureProviderCalled |-> FALSE,
   ConfigureProviderResponse |-> canned("ConfigureProvider"),
   ConfigureProviderRequest |-> ZeroRequest,
   ConfigureProviderFn |-> fn,
   StopCalled |-> FALSE,
   StopFn |-> fn,
   StopResponse |-> IF withCanned THEN Error("canned: cannot stop") ELSE Nil,
   ReadResourceCalled |-> FALSE,
   ReadResourceResponse |-> canned("ReadResource"),
   ReadResourceRequest |-> ZeroRequest,
   ReadResourceFn |-> fn,
   PlanResourceChangeCalled |-> FALSE,
   PlanResourceChangeResponse |-> canned("PlanResourceChange"),
   PlanResourceChangeRequest |-> ZeroRequest,
   PlanResourceChangeFn |-> fn,
   ApplyResourceChangeCalled |-> FALSE,
   ApplyResourceChangeResponse |-> canned("ApplyResourceChange"),
   ApplyResourceChangeRequest |-> ZeroRequest,
   ApplyResourceChangeFn |-> fn,
   ImportResourceStateCalled |-> FALSE,
   ImportResourceStateResponse |-> canned("ImportResourceState"),
   ImportResourceStateRequest |-> ZeroRequest,
   ImportResourceStateFn |-> fn,
   MoveResourceStateCalled |-> FALSE,
   MoveResourceStateResponse |-> canned("MoveResourceState"),
   MoveResourceStateRequest |-> ZeroRequest,
   MoveResourceStateFn |-> fn,
   ReadDataSourceCalled |-> FALSE,
   ReadDataSourceResponse |-> canned("ReadDataSource"),
   ReadDataSourceRequest |-> ZeroRequest,
   ReadDataSourceFn |-> fn,
   PlanActionCalled |-> FALSE,
   PlanActionRequest |-> ZeroRequest,
   PlanActionResponse |-> canned("PlanAction"),
   PlanActionFn |-> fn,
   ApplyActionCalled |-> FALSE,
   ApplyActionRequest |-> ZeroRequest,
   ApplyActionResponse |-> canned("ApplyAction"),
   ApplyActionFn |-> fn,
   CallFunctionCalled |-> FALSE,
   CallFunctionResponse |-> IF withCanned THEN Canned("CallFunction")
                            ELSE ZeroCallFunctionResponse,
   CallFunctionRequest |-> ZeroRequest,
   CallFunctionFn |-> fn,
   CloseCalled |-> FALSE,
   CloseError |-> IF withCanned THEN Error("canned: close failed") ELSE Nil]

\* The result of a method: the mock after the call, the response returned, and the
\* return statement that produced it ("gate", "noschema", "error", "fn", "canned"
\* or "default").
Result(m, response, path) == [p |-> m, resp |-> response, via |-> path]

\* MockProvider.getProviderSchema
getProviderSchema(m) ==
  IF m.GetProviderSchemaResponse # Nil THEN m.GetProviderSchemaResponse
  ELSE [Provider |-> [Block |-> [Attributes |-> NoNames, BlockTypes |-> NoNames]],
        DataSources |-> NoNames, ResourceTypes |-> NoNames]

\* GetProviderSchema that stores the response it builds in the mock.
GetProviderSchema_Memo(m) ==
  LET m1 == [m EXCEPT !.GetProviderSchemaCalled = TRUE]
  IN Result([m1 EXCEPT !.GetProviderSchemaResponse = getProviderSchema(m1)],
            getProviderSchema(m1), "default")

\* MockProvider.GetProviderSchema
GetProviderSchema(m) ==
  LET m1 == [m EXCEPT !.GetProviderSchemaCalled = TRUE]
  IN Result(m1, getProviderSchema(m1), "default")

\* MockProvider.ValidateProviderConfig
ValidateProviderConfig(m, r, fnResp) ==
  LET m1 == [m EXCEPT !.ValidateProviderConfigCalled = TRUE,
                      !.ValidateProviderConfigRequest = r]
  IN IF m1.ValidateProviderConfigFn # Nil THEN Result(m1, fnResp, "fn")
     ELSE IF m1.ValidateProviderConfigResponse # Nil
       THEN Result(m1, m1.ValidateProviderConfigResponse, "canned")
     ELSE Result(m1, [ZeroValidateProviderConfigResponse EXCEPT !.PreparedConfig = r.Config],
                 "default")

\* ValidateResourceConfig with the ConfigureProviderCalled check of the instance
\* operations.
ValidateResourceConfig_Gated(m, r, fnResp) ==
  LET m1 == [m EXCEPT !.ValidateResourceConfigCalled = TRUE,
                      !.ValidateResourceConfigRequest = r]
      resourceTypes == getProviderSchema(m1).ResourceTypes
      resp == ZeroDiagnosticsResponse
  IN IF ~m1.ConfigureProviderCalled
       THEN Result(m1, [resp EXCEPT !.Diagnostics =
                          Append(@, ConfigureNotCalled("ValidateResourceConfig", r.TypeName))],
                   "gate")
     ELSE IF r.TypeName \notin DOMAIN resourceTypes
       THEN Result(m1, [resp EXCEPT !.Diagnostics = Append(@, NoSchemaFound(r.TypeName))],
                   "noschema")
     ELSE IF MarshalErr(r.Config, ImpliedType(resourceTypes[r.TypeName].Block))
       THEN Result(m1, [resp EXCEPT !.Diagnostics = Append(@, ErrDiag("msgpack.Marshal"))],
                   "error")
     ELSE IF m1.ValidateResourceConfigFn # Nil THEN Result(m1, fnResp, "fn")
     ELSE IF m1.ValidateResourceConfigResponse # Nil
       THEN Result(m1, m1.ValidateResourceConfigResponse, "canned")
     ELSE Result(m1, resp, "default")

\* ValidateResourceConfig that consults the override and the canned response before
\* it looks the schema up.
ValidateResourceConfig_FnFirst(m, r, fnResp) ==
  LET m1 == [m EXCEPT !.ValidateResourceConfigCalled = TRUE,
                      !.ValidateResourceConfigRequest = r]
      resourceTypes == getProviderSchema(m1).ResourceTypes
      resp == ZeroDiagnosticsResponse
  IN IF m1.ValidateResourceConfigFn # Nil THEN Result(m1, fnResp, "fn")
     ELSE IF m1.ValidateResourceConfigResponse # Nil
       THEN Result(m1, m1.ValidateResourceConfigResponse, "canned")
     ELSE IF r.TypeName \notin DOMAIN resourceTypes
       THEN Result(m1, [resp EXCEPT !.Diagnostics = Append(@, NoSchemaFound(r.TypeName))],
                   "noschema")
     ELSE IF MarshalErr(r.Config, ImpliedType(resourceTypes[r.TypeName].Block))
       THEN Result(m1, [resp EXCEPT !.Diagnostics = Append(@, ErrDiag("msgpack.Marshal"))],
                   "error")
     ELSE Result(m1, resp, "default")

\* ValidateResourceConfig that keeps the response of a failed validation as the
\* mock's canned response.
ValidateResourceConfig_StickyFailure(m, r, fnResp) ==
  LET m1 == [m EXCEPT !.ValidateResourceConfigCalled = TRUE,
                      !.ValidateResourceConfigRequest = r]
      resourceTypes == getProviderSchema(m1).ResourceTypes
      resp == ZeroDiagnosticsResponse
      noSchema == [resp EXCEPT !.Diagnostics = Append(@, NoSchemaFound(r.TypeName))]
      badConfig == [resp EXCEPT !.Diagnostics = Append(@, ErrDiag("msgpack.Marshal"))]
  IN IF r.TypeName \notin DOMAIN resourceTypes
       THEN Result([m1 EXCEPT !.ValidateResourceConfigResponse = noSchema], noSchema,
                   "noschema")
     ELSE IF MarshalErr(r.Config, ImpliedType(resourceTypes[r.TypeName].Block))
       THEN Result([m1 EXCEPT !.ValidateResourceConfigResponse = badConfig], badConfig,
                   "error")
     ELSE IF m1.ValidateResourceConfigFn # Nil THEN Result(m1, fnResp, "fn")
     ELSE IF m1.ValidateResourceConfigResponse # Nil
       THEN Result(m1, m1.ValidateResourceConfigResponse, "canned")
     ELSE Result(m1, resp, "default")

\* MockProvider.ValidateResourceConfig
ValidateResourceConfig(m, r, fnResp) ==
  LET m1 == [m EXCEPT !.ValidateResourceConfigCalled = TRUE,
                      !.ValidateResourceConfigRequest = r]
      resourceTypes == getProviderSchema(m1).ResourceTypes
      resp == ZeroDiagnosticsResponse
  IN IF r.TypeName \notin DOMAIN resourceTypes
       THEN Result(m1, [resp EXCEPT !.Diagnostics = Append(@, NoSchemaFound(r.TypeName))],
                   "noschema")
     ELSE IF MarshalErr(r.Config, ImpliedType(resourceTypes[r.TypeName].Block))
       THEN Result(m1, [resp EXCEPT !.Diagnostics = Append(@, ErrDiag("msgpack.Marshal"))],
                   "error")
     ELSE IF m1.ValidateResourceConfigFn # Nil THEN Result(m1, fnResp, "fn")
     ELSE IF m1.ValidateResourceConfigResponse # Nil
       THEN Result(m1, m1.ValidateResourceConfigResponse, "canned")
     ELSE Result(m1, resp, "default")

\* ValidateDataResourceConfig that consults the override and the canned response
\* after the schema lookup but before the encoding.
ValidateDataResourceConfig_FnBeforeMarshal(m, r, fnResp) ==
  LET m1 == [m EXCEPT !.ValidateDataResourceConfigCalled = TRUE,
                      !.ValidateDataResourceConfigRequest = r]
      dataSources == getProviderSchema(m1).DataSources
      resp == ZeroDiagnosticsResponse
  IN IF r.TypeName \notin DOMAIN dataSources
       THEN Result(m1, [resp EXCEPT !.Diagnostics = Append(@, NoSchemaFound(r.TypeName))],
                   "noschema")
     ELSE IF m1.ValidateDataResourceConfigFn # Nil THEN Result(m1, fnResp, "fn")
     ELSE IF m1.ValidateDataResourceConfigResponse # Nil
       THEN Result(m1, m1.ValidateDataResourceConfigResponse, "canned")
     ELSE IF MarshalErr(r.Config, ImpliedType(dataSources[r.TypeName].Block))
       THEN Result(m1, [resp EXCEPT !.Diagnostics = Append(@, ErrDiag("msgpack.Marshal"))],
                   "error")
     ELSE Result(m1, resp, "default")

\* MockProvider.ValidateDataResourceConfig
ValidateDataResourceConfig(m, r, fnResp) ==
  LET m1 == [m EXCEPT !.ValidateDataResourceConfigCalled = TRUE,
                      !.ValidateDataResourceConfigRequest = r]
      dataSources == getProviderSchema(m1).DataSources
      resp == ZeroDiagnosticsResponse
  IN IF r.TypeName \notin DOMAIN dataSources
       THEN Result(m1, [resp EXCEPT !.Diagnostics = Append(@, NoSchemaFound(r.TypeName))],
                   "noschema")
     ELSE IF MarshalErr(r.Config, ImpliedType(dataSources[r.TypeName].Block))
       THEN Result(m1, [resp EXCEPT !.Diagnostics = Append(@, ErrDiag("msgpack.Marshal"))],
                   "error")
     ELSE IF m1.ValidateDataResourceConfigFn # Nil THEN Result(m1, fnResp, "fn")
     ELSE IF m1.ValidateDataResourceConfigResponse # Nil
       THEN Result(m1, m1.ValidateDataResourceConfigResponse, "canned")
     ELSE Result(m1, resp, "default")

\* UpgradeResourceState without its ConfigureProviderCalled check.
UpgradeResourceState_NoGate(m, r, fnResp) ==
  LET resp == ZeroUpgradeResourceStateResponse
      resourceTypes == getProviderSchema(m).ResourceTypes
  IN IF r.TypeName \notin DOMAIN resourceTypes
       THEN Result(m, [resp EXCEPT !.Diagnostics = Append(@, NoSchemaFound(r.TypeName))],
                   "noschema")
     ELSE
       LET schemaType == ImpliedType(resourceTypes[r.TypeName].Block)
           m1 == [m EXCEPT !.UpgradeResourceStateCalled = TRUE,
                           !.UpgradeResourceStateRequest = r]
       IN IF m1.UpgradeResourceStateFn # Nil THEN Result(m1, fnResp, "fn")
          ELSE IF m1.UpgradeResourceStateResponse # Nil
            THEN Result(m1, m1.UpgradeResourceStateResponse, "canned")
          ELSE IF r.RawStateFlatmap # Nil THEN
            LET d == HCL2ValueFromFlatmap(r.RawStateFlatmap, schemaType)
            IN IF d.err
                 THEN Result(m1, [resp EXCEPT !.Diagnostics = Append(@, ErrDiag("flatmap"))],
                             "error")
               ELSE Result(m1, [resp EXCEPT !.UpgradedState = d.val], "default")
          ELSE IF r.RawStateJSON # NoJSON THEN
            LET d == Unmarshal(r.RawStateJSON, schemaType)
            IN IF d.err
                 THEN Result(m1, [resp EXCEPT !.Diagnostics = Append(@, ErrDiag("json"))],
                             "error")
               ELSE Result(m1, [resp EXCEPT !.UpgradedState = d.val], "default")
          ELSE Result(m1, resp, "default")

\* UpgradeResourceState that consults the override and the canned response before
\* it looks the schema up.
UpgradeResourceState_FnFirst(m, r, fnResp) ==
  LET resp == ZeroUpgradeResourceStateResponse
      resourceTypes == getProviderSchema(m).ResourceTypes
      m1 == [m EXCEPT !.UpgradeResourceStateCalled = TRUE,
                      !.UpgradeResourceStateRequest = r]
  IN IF ~m.ConfigureProviderCalled
       THEN Result(m, [resp EXCEPT !.Diagnostics =
                         Append(@, ConfigureNotCalled("UpgradeResourceState", r.TypeName))],
                   "gate")
     ELSE IF m1.UpgradeResourceStateFn # Nil THEN Result(m1, fnResp, "fn")
     ELSE IF m1.UpgradeResourceStateResponse # Nil
       THEN Result(m1, m1.UpgradeResourceStateResponse, "canned")
     ELSE IF r.TypeName \notin DOMAIN resourceTypes
       THEN Result(m, [resp EXCEPT !.Diagnostics = Append(@, NoSchemaFound(r.TypeName))],
                   "noschema")
     ELSE
       LET schemaType == ImpliedType(resourceTypes[r.TypeName].Block)
       IN IF r.RawStateFlatmap # Nil THEN
            LET d == HCL2ValueFromFlatmap(r.RawStateFlatmap, schemaType)
            IN IF d.err
                 THEN Result(m1, [resp EXCEPT !.Diagnostics = Append(@, ErrDiag("flatmap"))],
                             "error")
               ELSE Result(m1, [resp EXCEPT !.UpgradedState = d.val], "default")
          ELSE IF r.RawStateJSON # NoJSON THEN
            LET d == Unmarshal(r.RawStateJSON, schemaType)
            IN IF d.err
                 THEN Result(m1, [resp EXCEPT !.Diagnostics = Append(@, ErrDiag("json"))],
                             "error")
               ELSE Result(m1, [resp EXCEPT !.UpgradedState = d.val], "default")
          ELSE Result(m1, resp, "default")

\* UpgradeResourceState that keeps the response of a failed decode as the mock's
\* canned response.
UpgradeResourceState_KeepsFailure(m, r, fnResp) ==
  LET resp == ZeroUpgradeResourceStateResponse
      resourceTypes == getProviderSchema(m).ResourceTypes
  IN IF ~m.ConfigureProviderCalled
       THEN Result(m, [resp EXCEPT !.Diagnostics =
                         Append(@, ConfigureNotCalled("UpgradeResourceState", r.TypeName))],
                   "gate")
     ELSE IF r.TypeName \notin DOMAIN resourceTypes
       THEN Result(m, [resp EXCEPT !.Diagnostics = Append(@, NoSchemaFound(r.TypeName))],
                   "noschema")
     ELSE
       LET schemaType == ImpliedType(resourceTypes[r.TypeName].Block)
           m1 == [m EXCEPT !.UpgradeResourceStateCalled = TRUE,
                           !.UpgradeResourceStateRequest = r]
           failed(what) == [resp EXCEPT !.Diagnostics = Append(@, ErrDiag(what))]
           keep(what) == [m1 EXCEPT !.UpgradeResourceStateResponse = failed(what)]
       IN IF m1.UpgradeResourceStateFn # Nil THEN Result(m1, fnResp, "fn")
          ELSE IF m1.UpgradeResourceStateResponse # Nil
            THEN Result(m1, m1.UpgradeResourceStateResponse, "canned")
          ELSE IF r.RawStateFlatmap # Nil THEN
            LET d == HCL2ValueFromFlatmap(r.RawStateFlatmap, schemaType)
            IN IF d.err THEN Result(keep("flatmap"), failed("flatmap"), "error")
               ELSE Result(m1, [resp EXCEPT !.UpgradedState = d.val], "default")
          ELSE IF r.RawStateJSON # NoJSON THEN
            LET d == Unmarshal(r.RawStateJSON, schemaType)
            IN IF d.err THEN Result(keep("json"), failed("json"), "error")
               ELSE Result(m1, [resp EXCEPT !.UpgradedState = d.val], "default")
          ELSE Result(m1, resp, "default")

\* UpgradeResourceState that tests the flatmap the way it tests the JSON, by its
\* length: an empty flatmap is not decoded.
UpgradeResourceState_EmptyFlatmapSkipped(m, r, fnResp) ==
  LET resp == ZeroUpgradeResourceStateResponse
      resourceTypes == getProviderSchema(m).ResourceTypes
  IN IF ~m.ConfigureProviderCalled
       THEN Result(m, [resp EXCEPT !.Diagnostics =
                         Append(@, ConfigureNotCalled("UpgradeResourceState", r.TypeName))],
                   "gate")
     ELSE IF r.TypeName \notin DOMAIN resourceTypes
       THEN Result(m, [resp EXCEPT !.Diagnostics = Append(@, NoSchemaFound(r.TypeName))],
                   "noschema")
     ELSE
       LET schemaType == ImpliedType(resourceTypes[r.TypeName].Block)
           m1 == [m EXCEPT !.UpgradeResourceStateCalled = TRUE,
                           !.UpgradeResourceStateRequest = r]
       IN IF m1.UpgradeResourceStateFn # Nil THEN Result(m1, fnResp, "fn")
          ELSE IF m1.UpgradeResourceStateResponse # Nil
            THEN Result(m1, m1.UpgradeResourceStateResponse, "canned")
          ELSE IF r.RawStateFlatmap # Nil /\ DOMAIN r.RawStateFlatmap.m # {} THEN
            LET d == HCL2ValueFromFlatmap(r.RawStateFlatmap, schemaType)
            IN IF d.err
                 THEN Result(m1, [resp EXCEPT !.Diagnostics = Append(@, ErrDiag("flatmap"))],
                             "error")
               ELSE Result(m1, [resp EXCEPT !.UpgradedState = d.val], "default")
          ELSE IF r.RawStateJSON # NoJSON THEN
            LET d == Unmarshal(r.RawStateJSON, schemaType)
            IN IF d.err
                 THEN Result(m1, [resp EXCEPT !.Diagnostics = Append(@, ErrDiag("json"))],
                             "error")
               ELSE Result(m1, [resp EXCEPT !.UpgradedState = d.val], "default")
          ELSE Result(m1, resp, "default")

\* UpgradeResourceState whose default decodes the JSON state first and the flatmap
\* only when there is no JSON.
UpgradeResourceState_JSONFirst(m, r, fnResp) ==
  LET resp == ZeroUpgradeResourceStateResponse
      resourceTypes == getProviderSchema(m).ResourceTypes
  IN IF ~m.ConfigureProviderCalled
       THEN Result(m, [resp EXCEPT !.Diagnostics =
                         Append(@, ConfigureNotCalled("UpgradeResourceState", r.TypeName))],
                   "gate")
     ELSE IF r.TypeName \notin DOMAIN resourceTypes
       THEN Result(m, [resp EXCEPT !.Diagnostics = Append(@, NoSchemaFound(r.TypeName))],
                   "noschema")
     ELSE
       LET schemaType == ImpliedType(resourceTypes[r.TypeName].Block)
           m1 == [m EXCEPT !.UpgradeResourceStateCalled = TRUE,
                           !.UpgradeResourceStateRequest = r]
       IN IF m1.UpgradeResourceStateFn # Nil THEN Result(m1, fnResp, "fn")
          ELSE IF m1.UpgradeResourceStateResponse # Nil
            THEN Result(m1, m1.UpgradeResourceStateResponse, "canned")
          ELSE IF r.RawStateJSON # NoJSON THEN
            LET d == Unmarshal(r.RawStateJSON, schemaType)
            IN IF d.err
                 THEN Result(m1, [resp EXCEPT !.Diagnostics = Append(@, ErrDiag("json"))],
                             "error")
               ELSE Result(m1, [resp EXCEPT !.UpgradedState = d.val], "default")
          ELSE IF r.RawStateFlatmap # Nil THEN
            LET d == HCL2ValueFromFlatmap(r.RawStateFlatmap, schemaType)
            IN IF d.err
                 THEN Result(m1, [resp EXCEPT !.Diagnostics = Append(@, ErrDiag("flatmap"))],
                             "error")
               ELSE Result(m1, [resp EXCEPT !.UpgradedState = d.val], "default")
          ELSE Result(m1, resp, "default")

\* MockProvider.UpgradeResourceState
UpgradeResourceState(m, r, fnResp) ==
  LET resp == ZeroUpgradeResourceStateResponse
      resourceTypes == getProviderSchema(m).ResourceTypes
  IN IF ~m.ConfigureProviderCalled
       THEN Result(m, [resp EXCEPT !.Diagnostics =
                         Append(@, ConfigureNotCalled("UpgradeResourceState", r.TypeName))],
                   "gate")
     ELSE IF r.TypeName \notin DOMAIN resourceTypes
       THEN Result(m, [resp EXCEPT !.Diagnostics = Append(@, NoSchemaFound(r.TypeName))],
                   "noschema")
     ELSE
       LET schemaType == ImpliedType(resourceTypes[r.TypeName].Block)
           m1 == [m EXCEPT !.UpgradeResourceStateCalled = TRUE,
                           !.UpgradeResourceStateRequest = r]
       IN IF m1.UpgradeResourceStateFn # Nil THEN Result(m1, fnResp, "fn")
          ELSE IF m1.UpgradeResourceStateResponse # Nil
            THEN Result(m1, m1.UpgradeResourceStateResponse, "canned")
          ELSE IF r.RawStateFlatmap # Nil THEN
            LET d == HCL2ValueFromFlatmap(r.RawStateFlatmap, schemaType)
            IN IF d.err
                 THEN Result(m1, [resp EXCEPT !.Diagnostics = Append(@, ErrDiag("flatmap"))],
                             "error")
               ELSE Result(m1, [resp EXCEPT !.UpgradedState = d.val], "default")
          ELSE IF r.RawStateJSON # NoJSON THEN
            LET d == Unmarshal(r.RawStateJSON, schemaType)
            IN IF d.err
                 THEN Result(m1, [resp EXCEPT !.Diagnostics = Append(@, ErrDiag("json"))],
                             "error")
               ELSE Result(m1, [resp EXCEPT !.UpgradedState = d.val], "default")
          ELSE Result(m1, resp, "default")

\* ConfigureProvider that opens the gate only when the configuration succeeded.
ConfigureProvider_OnlyOnSuccess(m, r, fnResp) ==
  LET m1 == [m EXCEPT !.ConfigureProviderRequest = r]
      out == IF m1.ConfigureProviderFn # Nil THEN Result(m1, fnResp, "fn")
             ELSE IF m1.ConfigureProviderResponse # Nil
               THEN Result(m1, m1.ConfigureProviderResponse, "canned")
             ELSE Result(m1, ZeroDiagnosticsResponse, "default")
  IN [out EXCEPT !.p.ConfigureProviderCalled = @ \/ ~HasError(out.resp.Diagnostics)]

\* MockProvider.ConfigureProvider
ConfigureProvider(m, r, fnResp) ==
  LET m1 == [m EXCEPT !.ConfigureProviderCalled = TRUE, !.ConfigureProviderRequest = r]
  IN IF m1.ConfigureProviderFn # Nil THEN Result(m1, fnResp, "fn")
     ELSE IF m1.ConfigureProviderResponse # Nil
       THEN Result(m1, m1.ConfigureProviderResponse, "canned")
     ELSE Result(m1, ZeroDiagnosticsResponse, "default")

\* Stop that does nothing on a provider that is not configured.
Stop_Gated(m, fnResp) ==
  LET m1 == [m EXCEPT !.StopCalled = TRUE]
  IN IF ~m.ConfigureProviderCalled THEN Result(m, Nil, "gate")
     ELSE IF m1.StopFn # Nil THEN Result(m1, fnResp, "fn")
     ELSE Result(m1, m1.StopResponse, "canned")

\* MockProvider.Stop
Stop(m, fnResp) ==
  LET m1 == [m EXCEPT !.StopCalled = TRUE]
  IN IF m1.StopFn # Nil THEN Result(m1, fnResp, "fn")
     ELSE Result(m1, m1.StopResponse, "canned")

\* ReadResource that returns the canned response as it is stored, without coercing
\* its state to the schema.
ReadResource_NoCoerce(m, r, fnResp) ==
  LET m1 == [m EXCEPT !.ReadResourceCalled = TRUE, !.ReadResourceRequest = r]
      resp == ZeroReadResourceResponse
      resourceTypes == getProviderSchema(m1).ResourceTypes
  IN IF ~m1.ConfigureProviderCalled
       THEN Result(m1, [resp EXCEPT !.Diagnostics =
                          Append(@, ConfigureNotCalled("ReadResource", r.TypeName))],
                   "gate")
     ELSE IF m1.ReadResourceFn # Nil THEN Result(m1, fnResp, "fn")
     ELSE IF m1.ReadResourceResponse # Nil THEN
       IF r.TypeName \notin DOMAIN resourceTypes
         THEN Result(m1, [m1.ReadResourceResponse EXCEPT
                            !.Diagnostics = Append(@, NoSchemaFound(r.TypeName))],
                     "noschema")
       ELSE Result(m1, m1.ReadResourceResponse, "canned")
     ELSE Result(m1, [resp EXCEPT !.NewState = r.PriorState, !.Private = r.Private], "default")

\* ReadResource that prefers the built-in default to the canned response: with no
\* override it returns the prior state, whatever ReadResourceResponse holds.
ReadResource_DefaultFirst(m, r, fnResp) ==
  LET m1 == [m EXCEPT !.ReadResourceCalled = TRUE, !.ReadResourceRequest = r]
      resp == ZeroReadResourceResponse
  IN IF ~m1.ConfigureProviderCalled
       THEN Result(m1, [resp EXCEPT !.Diagnostics =
                          Append(@, ConfigureNotCalled("ReadResource", r.TypeName))],
                   "gate")
     ELSE IF m1.ReadResourceFn # Nil THEN Result(m1, fnResp, "fn")
     ELSE Result(m1, [resp EXCEPT !.NewState = r.PriorState, !.Private = r.Private], "default")

\* ReadResource whose default looks the schema up like the canned path does.
ReadResource_SchemaChecked(m, r, fnResp) ==
  LET m1 == [m EXCEPT !.ReadResourceCalled = TRUE, !.ReadResourceRequest = r]
      resp == ZeroReadResourceResponse
      resourceTypes == getProviderSchema(m1).ResourceTypes
  IN IF ~m1.ConfigureProviderCalled
       THEN Result(m1, [resp EXCEPT !.Diagnostics =
                          Append(@, ConfigureNotCalled("ReadResource", r.TypeName))],
                   "gate")
     ELSE IF m1.ReadResourceFn # Nil THEN Result(m1, fnResp, "fn")
     ELSE IF r.TypeName \notin DOMAIN resourceTypes
       THEN Result(m1, [resp EXCEPT !.Diagnostics = Append(@, NoSchemaFound(r.TypeName))],
                   "noschema")
     ELSE IF m1.ReadResourceResponse # Nil THEN
       LET c == CoerceValue(resourceTypes[r.TypeName].Block, m1.ReadResourceResponse.NewState)
       IN Result(m1, [m1.ReadResourceResponse EXCEPT
                        !.NewState = c.val,
                        !.Diagnostics = IF c.err THEN Append(@, ErrDiag("CoerceValue")) ELSE @],
                 "canned")
     ELSE Result(m1, [resp EXCEPT !.NewState = r.PriorState, !.Private = r.Private], "default")

\* MockProvider.ReadResource
ReadResource(m, r, fnResp) ==
  LET m1 == [m EXCEPT !.ReadResourceCalled = TRUE, !.ReadResourceRequest = r]
      resp == ZeroReadResourceResponse
      resourceTypes == getProviderSchema(m1).ResourceTypes
  IN IF ~m1.ConfigureProviderCalled
       THEN Result(m1, [resp EXCEPT !.Diagnostics =
                          Append(@, ConfigureNotCalled("ReadResource", r.TypeName))],
                   "gate")
     ELSE IF m1.ReadResourceFn # Nil THEN Result(m1, fnResp, "fn")
     ELSE IF m1.ReadResourceResponse # Nil THEN
       LET canned == m1.ReadResourceResponse
       IN IF r.TypeName \notin DOMAIN resourceTypes
            THEN Result(m1, [canned EXCEPT !.Diagnostics = Append(@, NoSchemaFound(r.TypeName))],
                        "noschema")
          ELSE LET c == CoerceValue(resourceTypes[r.TypeName].Block, canned.NewState)
               IN Result(m1,
                         [canned EXCEPT !.NewState = c.val,
                                        !.Diagnostics = IF c.err
                                                        THEN Append(@, ErrDiag("CoerceValue"))
                                                        ELSE @],
                         "canned")
     ELSE Result(m1, [resp EXCEPT !.NewState = r.PriorState, !.Private = r.Private], "default")

\* PlanResourceChange that looks the schema up before it tests for a destroy plan.
PlanResourceChange_SchemaFirst(m, r, fnResp) ==
  LET resp == ZeroPlanResourceChangeResponse
      resourceTypes == getProviderSchema(m).ResourceTypes
      m1 == [m EXCEPT !.PlanResourceChangeCalled = TRUE, !.PlanResourceChangeRequest = r]
  IN IF ~m.ConfigureProviderCalled
       THEN Result(m, [resp EXCEPT !.Diagnostics =
                         Append(@, ConfigureNotCalled("PlanResourceChange", r.TypeName))],
                   "gate")
     ELSE IF m1.PlanResourceChangeFn # Nil THEN Result(m1, fnResp, "fn")
     ELSE IF m1.PlanResourceChangeResponse # Nil
       THEN Result(m1, m1.PlanResourceChangeResponse, "canned")
     ELSE IF r.TypeName \notin DOMAIN resourceTypes
       THEN Result(m1, [resp EXCEPT !.Diagnostics = Append(@, NoSchemaFound(r.TypeName))],
                   "noschema")
     ELSE IF IsNull(r.ProposedNewState)
       THEN Result(m1, [resp EXCEPT !.PlannedState = r.ProposedNewState,
                                    !.PlannedPrivate = r.PriorPrivate],
                   "default")
     ELSE LET schema == resourceTypes[r.TypeName]
              val == Transform(<<>>, r.ProposedNewState,
                               [fn |-> "plan", schema |-> schema, config |-> r.Config])
          IN Result(m1, [resp EXCEPT !.PlannedPrivate = r.PriorPrivate, !.PlannedState = val],
                    "default")

\* PlanResourceChange that carries the private blob on the destroy path only.
PlanResourceChange_DropPrivate(m, r, fnResp) ==
  LET resp == ZeroPlanResourceChangeResponse
      resourceTypes == getProviderSchema(m).ResourceTypes
      m1 == [m EXCEPT !.PlanResourceChangeCalled = TRUE, !.PlanResourceChangeRequest = r]
  IN IF ~m.ConfigureProviderCalled
       THEN Result(m, [resp EXCEPT !.Diagnostics =
                         Append(@, ConfigureNotCalled("PlanResourceChange", r.TypeName))],
                   "gate")
     ELSE IF m1.PlanResourceChangeFn # Nil THEN Result(m1, fnResp, "fn")
     ELSE IF m1.PlanResourceChangeResponse # Nil
       THEN Result(m1, m1.PlanResourceChangeResponse, "canned")
     ELSE IF IsNull(r.ProposedNewState)
       THEN Result(m1, [resp EXCEPT !.PlannedState = r.ProposedNewState,
                                    !.PlannedPrivate = r.PriorPrivate],
                   "default")
     ELSE IF r.TypeName \notin DOMAIN resourceTypes
       THEN Result(m1, [resp EXCEPT !.Diagnostics = Append(@, NoSchemaFound(r.TypeName))],
                   "noschema")
     ELSE LET schema == resourceTypes[r.TypeName]
              val == Transform(<<>>, r.ProposedNewState,
                               [fn |-> "plan", schema |-> schema, config |-> r.Config])
          IN Result(m1, [resp EXCEPT !.PlannedState = val], "default")

\* MockProvider.PlanResourceChange
PlanResourceChange(m, r, fnResp) ==
  LET resp == ZeroPlanResourceChangeResponse
      resourceTypes == getProviderSchema(m).ResourceTypes
      m1 == [m EXCEPT !.PlanResourceChangeCalled = TRUE, !.PlanResourceChangeRequest = r]
  IN IF ~m.ConfigureProviderCalled
       THEN Result(m, [resp EXCEPT !.Diagnostics =
                         Append(@, ConfigureNotCalled("PlanResourceChange", r.TypeName))],
                   "gate")
     ELSE IF m1.PlanResourceChangeFn # Nil THEN Result(m1, fnResp, "fn")
     ELSE IF m1.PlanResourceChangeResponse # Nil
       THEN Result(m1, m1.PlanResourceChangeResponse, "canned")
     ELSE IF IsNull(r.ProposedNewState)
       THEN Result(m1, [resp EXCEPT !.PlannedState = r.ProposedNewState,
                                    !.PlannedPrivate = r.PriorPrivate],
                   "default")
     ELSE IF r.TypeName \notin DOMAIN resourceTypes
       THEN Result(m1, [resp EXCEPT !.Diagnostics = Append(@, NoSchemaFound(r.TypeName))],
                   "noschema")
     ELSE LET schema == resourceTypes[r.TypeName]
              val == Transform(<<>>, r.ProposedNewState,
                               [fn |-> "plan", schema |-> schema, config |-> r.Config])
          IN Result(m1, [resp EXCEPT !.PlannedPrivate = r.PriorPrivate, !.PlannedState = val],
                    "default")

\* ApplyResourceChange whose gate appends its diagnostic and does not return.
ApplyResourceChange_GateNoReturn(m, r, fnResp) ==
  LET m1 == [m EXCEPT !.ApplyResourceChangeCalled = TRUE, !.ApplyResourceChangeRequest = r]
      resp == IF ~m1.ConfigureProviderCalled
              THEN [ZeroApplyResourceChangeResponse EXCEPT !.Diagnostics =
                      Append(@, ConfigureNotCalled("ApplyResourceChange", r.TypeName))]
              ELSE ZeroApplyResourceChangeResponse
      path(x) == IF ~m1.ConfigureProviderCalled THEN "gate" ELSE x
  IN IF m1.ApplyResourceChangeFn # Nil THEN Result(m1, fnResp, path("fn"))
     ELSE IF m1.ApplyResourceChangeResponse # Nil
       THEN Result(m1, m1.ApplyResourceChangeResponse, path("canned"))
     ELSE IF IsNull(r.PlannedState)
       THEN Result(m1, [resp EXCEPT !.NewState = r.PlannedState], path("default"))
     ELSE LET val == Transform(<<>>, r.PlannedState, [fn |-> "apply"])
          IN Result(m1, [resp EXCEPT !.NewState = val, !.Private = r.PlannedPrivate],
                    path("default"))

\* ApplyResourceChange that looks the schema up before it tests for a destroy.
ApplyResourceChange_SchemaFirst(m, r, fnResp) ==
  LET m1 == [m EXCEPT !.ApplyResourceChangeCalled = TRUE, !.ApplyResourceChangeRequest = r]
      resp == ZeroApplyResourceChangeResponse
  IN IF ~m1.ConfigureProviderCalled
       THEN Result(m1, [resp EXCEPT !.Diagnostics =
                          Append(@, ConfigureNotCalled("ApplyResourceChange", r.TypeName))],
                   "gate")
     ELSE IF m1.ApplyResourceChangeFn # Nil THEN Result(m1, fnResp, "fn")
     ELSE IF m1.ApplyResourceChangeResponse # Nil
       THEN Result(m1, m1.ApplyResourceChangeResponse, "canned")
     ELSE IF r.TypeName \notin DOMAIN getProviderSchema(m1).ResourceTypes
       THEN Result(m1, [resp EXCEPT !.Diagnostics = Append(@, NoSchemaFound(r.TypeName))],
                   "noschema")
     ELSE IF IsNull(r.PlannedState)
       THEN Result(m1, [resp EXCEPT !.NewState = r.PlannedState], "default")
     ELSE LET val == Transform(<<>>, r.PlannedState, [fn |-> "apply"])
          IN Result(m1, [resp EXCEPT !.NewState = val, !.Private = r.PlannedPrivate], "default")

\* ApplyResourceChange that leaves the private blob out of its response.
ApplyResourceChange_DropPrivate(m, r, fnResp) ==
  LET m1 == [m EXCEPT !.ApplyResourceChangeCalled = TRUE, !.ApplyResourceChangeRequest = r]
      resp == ZeroApplyResourceChangeResponse
  IN IF ~m1.ConfigureProviderCalled
       THEN Result(m1, [resp EXCEPT !.Diagnostics =
                          Append(@, ConfigureNotCalled("ApplyResourceChange", r.TypeName))],
                   "gate")
     ELSE IF m1.ApplyResourceChangeFn # Nil THEN Result(m1, fnResp, "fn")
     ELSE IF m1.ApplyResourceChangeResponse # Nil
       THEN Result(m1, m1.ApplyResourceChangeResponse, "canned")
     ELSE IF IsNull(r.PlannedState)
       THEN Result(m1, [resp EXCEPT !.NewState = r.PlannedState], "default")
     ELSE LET val == Transform(<<>>, r.PlannedState, [fn |-> "apply"])
          IN Result(m1, [resp EXCEPT !.NewState = val], "default")

\* ApplyResourceChange that checks ConfigureProviderCalled before it records the
\* call, as PlanResourceChange does.
ApplyResourceChange_GateFirst(m, r, fnResp) ==
  LET m1 == [m EXCEPT !.ApplyResourceChangeCalled = TRUE, !.ApplyResourceChangeRequest = r]
      resp == ZeroApplyResourceChangeResponse
  IN IF ~m1.ConfigureProviderCalled
       THEN Result(m, [resp EXCEPT !.Diagnostics =
                          Append(@, ConfigureNotCalled("ApplyResourceChange", r.TypeName))],
                   "gate")
     ELSE IF m1.ApplyResourceChangeFn # Nil THEN Result(m1, fnResp, "fn")
     ELSE IF m1.ApplyResourceChangeResponse # Nil
       THEN Result(m1, m1.ApplyResourceChangeResponse, "canned")
     ELSE IF IsNull(r.PlannedState)
       THEN Result(m1, [resp EXCEPT !.NewState = r.PlannedState], "default")
     ELSE LET val == Transform(<<>>, r.PlannedState, [fn |-> "apply"])
          IN Result(m1, [resp EXCEPT !.NewState = val, !.Private = r.PlannedPrivate], "default")

\* ApplyResourceChange whose destroy exit carries the planned private, as the
\* non-destroy path does.
ApplyResourceChange_DestroyCarriesPrivate(m, r, fnResp) ==
  LET m1 == [m EXCEPT !.ApplyResourceChangeCalled = TRUE, !.ApplyResourceChangeRequest = r]
      resp == ZeroApplyResourceChangeResponse
  IN IF ~m1.ConfigureProviderCalled
       THEN Result(m1, [resp EXCEPT !.Diagnostics =
                          Append(@, ConfigureNotCalled("ApplyResourceChange", r.TypeName))],
                   "gate")
     ELSE IF m1.ApplyResourceChangeFn # Nil THEN Result(m1, fnResp, "fn")
     ELSE IF m1.ApplyResourceChangeResponse # Nil
       THEN Result(m1, m1.ApplyResourceChangeResponse, "canned")
     ELSE IF IsNull(r.PlannedState)
       THEN Result(m1, [resp EXCEPT !.NewState = r.PlannedState,
                                    !.Private = r.PlannedPrivate], "default")
     ELSE LET val == Transform(<<>>, r.PlannedState, [fn |-> "apply"])
          IN Result(m1, [resp EXCEPT !.NewState = val, !.Private = r.PlannedPrivate], "default")

\* MockProvider.ApplyResourceChange
ApplyResourceChange(m, r, fnResp) ==
  LET m1 == [m EXCEPT !.ApplyResourceChangeCalled = TRUE, !.ApplyResourceChangeRequest = r]
      resp == ZeroApplyResourceChangeResponse
  IN IF ~m1.ConfigureProviderCalled
       THEN Result(m1, [resp EXCEPT !.Diagnostics =
                          Append(@, ConfigureNotCalled("ApplyResourceChange", r.TypeName))],
                   "gate")
     ELSE IF m1.ApplyResourceChangeFn # Nil THEN Result(m1, fnResp, "fn")
     ELSE IF m1.ApplyResourceChangeResponse # Nil
       THEN Result(m1, m1.ApplyResourceChangeResponse, "canned")
     ELSE IF IsNull(r.PlannedState)
       THEN Result(m1, [resp EXCEPT !.NewState = r.PlannedState], "default")
     ELSE LET val == Transform(<<>>, r.PlannedState, [fn |-> "apply"])
          IN Result(m1, [resp EXCEPT !.NewState = val, !.Private = r.PlannedPrivate], "default")

\* The loop of ImportResourceState over the copy of the canned resources: the
\* resources with each state coerced to its own type's schema, or the diagnostic
\* of the first resource that has no schema or does not coerce.
RECURSIVE importLoop(_, _, _)
importLoop(m, importedResources, i) ==
  IF i > Len(importedResources) THEN [failed |-> FALSE, importedResources |-> importedResources]
  ELSE LET res == importedResources[i]
           resourceTypes == getProviderSchema(m).ResourceTypes
       IN IF res.TypeName \notin DOMAIN resourceTypes
            THEN [failed |-> TRUE, diag |-> NoSchemaFound(res.TypeName)]
          ELSE LET c == CoerceValue(resourceTypes[res.TypeName].Block, res.State)
               IN IF c.err THEN [failed |-> TRUE, diag |-> ErrDiag("CoerceValue")]
                  ELSE importLoop(m, [importedResources EXCEPT ![i].State = c.val], i + 1)

\* ImportResourceState that records the call before it checks
\* ConfigureProviderCalled, as ReadResource does.
ImportResourceState_RecordsFirst(m, r, fnResp) ==
  LET resp == ZeroImportResourceStateResponse
      m1 == [m EXCEPT !.ImportResourceStateCalled = TRUE, !.ImportResourceStateRequest = r]
  IN IF ~m.ConfigureProviderCalled
       THEN Result(m1, [resp EXCEPT !.Diagnostics =
                          Append(@, ConfigureNotCalled("ImportResourceState", r.TypeName))],
                   "gate")
     ELSE IF m1.ImportResourceStateFn # Nil THEN Result(m1, fnResp, "fn")
     ELSE IF m1.ImportResourceStateResponse # Nil THEN
       LET canned == m1.ImportResourceStateResponse
           loop == importLoop(m1, canned.ImportedResources, 1)
       IN IF loop.failed
            THEN Result(m1, [canned EXCEPT !.Diagnostics = Append(@, loop.diag)],
                        IF loop.diag.summary = "no schema found for" THEN "noschema" ELSE "error")
          ELSE Result(m1, [canned EXCEPT !.ImportedResources = loop.importedResources], "canned")
     ELSE Result(m1, resp, "default")

\* MockProvider.ImportResourceState
ImportResourceState(m, r, fnResp) ==
  LET resp == ZeroImportResourceStateResponse
      m1 == [m EXCEPT !.ImportResourceStateCalled = TRUE, !.ImportResourceStateRequest = r]
  IN IF ~m.ConfigureProviderCalled
       THEN Result(m, [resp EXCEPT !.Diagnostics =
                         Append(@, ConfigureNotCalled("ImportResourceState", r.TypeName))],
                   "gate")
     ELSE IF m1.ImportResourceStateFn # Nil THEN Result(m1, fnResp, "fn")
     ELSE IF m1.ImportResourceStateResponse # Nil THEN
       LET canned == m1.ImportResourceStateResponse
           loop == importLoop(m1, canned.ImportedResources, 1)
       IN IF loop.failed
            THEN Result(m1, [canned EXCEPT !.Diagnostics = Append(@, loop.diag)],
                        IF loop.diag.summary = "no schema found for" THEN "noschema" ELSE "error")
          ELSE Result(m1, [canned EXCEPT !.ImportedResources = loop.importedResources], "canned")
     ELSE Result(m1, resp, "default")

\* MoveResourceState with the ConfigureProviderCalled check of the instance
\* operations.
MoveResourceState_Gated(m, r, fnResp) ==
  LET m1 == [m EXCEPT !.MoveResourceStateCalled = TRUE, !.MoveResourceStateRequest = r]
  IN IF ~m.ConfigureProviderCalled
       THEN Result(m, [ZeroMoveResourceStateResponse EXCEPT !.Diagnostics =
                         Append(@, ConfigureNotCalled("MoveResourceState", r.TargetTypeName))],
                   "gate")
     ELSE IF m1.MoveResourceStateFn # Nil THEN Result(m1, fnResp, "fn")
     ELSE IF m1.MoveResourceStateResponse # Nil
       THEN Result(m1, m1.MoveResourceStateResponse, "canned")
     ELSE Result(m1, ZeroMoveResourceStateResponse, "default")

\* MockProvider.MoveResourceState
MoveResourceState(m, r, fnResp) ==
  LET m1 == [m EXCEPT !.MoveResourceStateCalled = TRUE, !.MoveResourceStateRequest = r]
  IN IF m1.MoveResourceStateFn # Nil THEN Result(m1, fnResp, "fn")
     ELSE IF m1.MoveResourceStateResponse # Nil
       THEN Result(m1, m1.MoveResourceStateResponse, "canned")
     ELSE Result(m1, ZeroMoveResourceStateResponse, "default")

\* ReadDataSource without its ConfigureProviderCalled check.
ReadDataSource_NoGate(m, r, fnResp) ==
  LET m1 == [m EXCEPT !.ReadDataSourceCalled = TRUE, !.ReadDataSourceRequest = r]
  IN IF m1.ReadDataSourceFn # Nil THEN Result(m1, fnResp, "fn")
     ELSE IF m1.ReadDataSourceResponse # Nil
       THEN Result(m1, m1.ReadDataSourceResponse, "canned")
     ELSE Result(m1, ZeroReadDataSourceResponse, "default")

\* MockProvider.ReadDataSource
ReadDataSource(m, r, fnResp) ==
  LET m1 == [m EXCEPT !.ReadDataSourceCalled = TRUE, !.ReadDataSourceRequest = r]
  IN IF ~m.ConfigureProviderCalled
       THEN Result(m, [ZeroReadDataSourceResponse EXCEPT !.Diagnostics =
                         Append(@, ConfigureNotCalled("ReadDataSource", r.TypeName))],
                   "gate")
     ELSE IF m1.ReadDataSourceFn # Nil THEN Result(m1, fnResp, "fn")
     ELSE IF m1.ReadDataSourceResponse # Nil
       THEN Result(m1, m1.ReadDataSourceResponse, "canned")
     ELSE Result(m1, ZeroReadDataSourceResponse, "default")

\* MockProvider.PlanAction
PlanAction(m, r, fnResp) ==
  LET m1 == [m EXCEPT !.PlanActionCalled = TRUE, !.PlanActionRequest = r]
  IN IF ~m.ConfigureProviderCalled
       THEN Result(m, [ZeroDiagnosticsResponse EXCEPT !.Diagnostics =
                         Append(@, ConfigureNotCalled("PlanAction", r.TypeName))],
                   "gate")
     ELSE IF m1.PlanActionFn # Nil THEN Result(m1, fnResp, "fn")
     ELSE IF m1.PlanActionResponse # Nil THEN Result(m1, m1.PlanActionResponse, "canned")
     ELSE Result(m1, ZeroDiagnosticsResponse, "default")

\* MockProvider.ApplyAction
ApplyAction(m, r, fnResp) ==
  LET m1 == [m EXCEPT !.ApplyActionCalled = TRUE, !.ApplyActionRequest = r]
  IN IF ~m.ConfigureProviderCalled
       THEN Result(m, [ZeroDiagnosticsResponse EXCEPT !.Diagnostics =
                         Append(@, ConfigureNotCalled("ApplyAction", r.TypeName))],
                   "gate")
     ELSE IF m1.ApplyActionFn # Nil THEN Result(m1, fnResp, "fn")
     ELSE IF m1.ApplyActionResponse # Nil THEN Result(m1, m1.ApplyActionResponse, "canned")
     ELSE Result(m1, ZeroDiagnosticsResponse, "default")

\* MockProvider.CallFunction
CallFunction(m, r, fnResp) ==
  LET m1 == [m EXCEPT !.CallFunctionCalled = TRUE, !.CallFunctionRequest = r]
  IN IF m1.CallFunctionFn # Nil THEN Result(m1, fnResp, "fn")
     ELSE Result(m1, m1.CallFunctionResponse, "canned")

\* Close that returns CloseError without recording the call.
Close_NotRecorded(m) == Result(m, m.CloseError, "canned")

\* Close that returns the provider to its unconfigured state.
Close_Unconfigures(m) ==
  LET m1 == [m EXCEPT !.CloseCalled = TRUE, !.ConfigureProviderCalled = FALSE]
  IN Result(m1, m1.CloseError, "canned")

\* MockProvider.Close
Close(m) ==
  LET m1 == [m EXCEPT !.CloseCalled = TRUE]
  IN Result(m1, m1.CloseError, "canned")

(***************************************************************************)
(* The requests the callers of this model issue                             *)
(***************************************************************************)
ProviderConfig == ObjectVal([region |-> StringVal("x")])
DataConfig == ObjectVal([q |-> StringVal("x"), out |-> NullVal(String)])

ConfigRequests == {[Config |-> ProviderConfig]}
ValidateResourceConfigRequests ==
  {[TypeName |-> t, Config |-> c] : t \in TypeNames, c \in {ThingConfig, StringVal("x")}}
ValidateDataResourceConfigRequests ==
  {[TypeName |-> t, Config |-> c] :
     t \in {"test_data", "unknown_type"}, c \in {DataConfig, StringVal("x")}}

ValidFlatmap ==
  Flatmap((<<"id">> :> "x") @@ (<<"disk", "#">> :> "1") @@ (<<"disk", "0", "uuid">> :> "x")
          @@ (<<"disk", "0", "label">> :> "x")
          @@ (<<"nic", "#">> :> "0"))
BadFlatmap == Flatmap((<<"disk", "#">> :> "many"))
ValidJSON == [j |-> "object", members |-> [id |-> [j |-> "string", v |-> "x"]]]
BadJSON == [j |-> "invalid"]
UpgradeResourceStateRequests ==
  {[TypeName |-> "test_thing", Version |-> 0, RawStateJSON |-> js, RawStateFlatmap |-> fm] :
     js \in {NoJSON, ValidJSON, BadJSON}, fm \in {Nil, ValidFlatmap, BadFlatmap}}
  \cup {[TypeName |-> "unknown_type", Version |-> 0, RawStateJSON |-> NoJSON,
         RawStateFlatmap |-> ValidFlatmap]}

ReadResourceRequests ==
  {[TypeName |-> t, PriorState |-> ThingState, Private |-> pv] : t \in TypeNames, pv \in Privates}

\* The plan requests of the protocol runs: a destroy and a create/update, for a
\* registered and an unregistered type.
PlanResourceChangeRequests ==
  {[TypeName |-> t, PriorState |-> ThingState, ProposedNewState |-> pr,
    Config |-> IF IsNull(pr) THEN NullVal(ThingType) ELSE ThingConfig, PriorPrivate |-> pv] :
     t \in TypeNames, pr \in {NullVal(ThingType), ThingProposed}, pv \in Privates}

ApplyResourceChangeRequests ==
  {[TypeName |-> t, PriorState |-> ThingState, PlannedState |-> pl,
    Config |-> IF IsNull(pl) THEN NullVal(ThingType) ELSE ThingConfig, PlannedPrivate |-> pv] :
     t \in TypeNames, pl \in {NullVal(ThingType), ThingPlanned}, pv \in Privates}

ImportResourceStateRequests == {[TypeName |-> t, ID |-> "i-abc"] : t \in TypeNames}
MoveResourceStateRequests ==
  {[SourceTypeName |-> "old_thing", TargetTypeName |-> t] : t \in TypeNames}
ReadDataSourceRequests ==
  {[TypeName |-> t, Config |-> DataConfig] : t \in {"test_data", "unknown_type"}}
ActionRequests == {[TypeName |-> t] : t \in {"test_action", "unknown_type"}}
CallFunctionRequests == {[FunctionName |-> "f", Arguments |-> <<StringVal("x")>>]}

\* The plan requests of the default-plan runs: every combination of null, unknown
\* and set attributes, of an empty and a one-element nested list and set, in the
\* proposed state and in the config, over three prior states.
ProposedStrings == {NullVal(String), UnknownVal(String), StringVal("x")}
ConfigStrings == {NullVal(String), StringVal("x")}
ProposedDisks ==
  {ListVal(DiskType, <<>>)}
  \cup {ListVal(DiskType, <<Disk(u, l)>>) : u \in ProposedStrings, l \in ProposedStrings}
ProposedNics ==
  {SetVal(NicType, {})} \cup {SetVal(NicType, {Nic(u)}) : u \in ConfigStrings}
ConfigDisks ==
  {ListVal(DiskType, <<>>)}
  \cup {ListVal(DiskType, <<Disk(NullVal(String), l)>>) : l \in ConfigStrings}
ConfigNics == {SetVal(NicType, {}), SetVal(NicType, {Nic(NullVal(String))})}
ProposedStates ==
  {Thing(id, name, ami, disk, nic) :
     id \in ProposedStrings, name \in ProposedStrings, ami \in ConfigStrings,
     disk \in ProposedDisks, nic \in ProposedNics}
  \cup {NullVal(ThingType), UnknownVal(ThingType)}
Configs ==
  {Thing(NullVal(String), name, ami, disk, nic) :
     name \in ConfigStrings, ami \in ConfigStrings, disk \in ConfigDisks, nic \in ConfigNics}
  \cup {NullVal(ThingType)}
PriorStates ==
  {NullVal(ThingType), ThingState, [ThingState EXCEPT !.attrs.name = NullVal(String)]}
DefaultPlanRequests ==
  {[TypeName |-> "test_thing", PriorState |-> ps, ProposedNewState |-> pr, Config |-> c,
    PriorPrivate |-> pv] :
     ps \in PriorStates, pr \in ProposedStates, c \in Configs, pv \in Privates}

\* test_wide: one computed attribute of every kind of type the default apply tells
\* apart.
WideBlock ==
  [Attributes |-> [s |-> Attribute(String, FALSE, FALSE, TRUE),
                   n |-> Attribute(Number, FALSE, FALSE, TRUE),
                   b |-> Attribute(Bool, FALSE, FALSE, TRUE),
                   m |-> Attribute(Map(String), FALSE, FALSE, TRUE),
                   l |-> Attribute(List(String), FALSE, FALSE, TRUE),
                   st |-> Attribute(Set(String), FALSE, FALSE, TRUE),
                   o |-> Attribute(Object([s |-> String]), FALSE, FALSE, TRUE),
                   d |-> Attribute(DynamicPseudoType, FALSE, FALSE, TRUE),
                   tu |-> Attribute(Tuple(<<String>>), FALSE, FALSE, TRUE)],
   BlockTypes |-> NoNames]
WideSchema ==
  [Provider |-> [Block |-> ProviderBlock],
   DataSources |-> [test_data |-> [Block |-> DataBlock]],
   ResourceTypes |-> [test_wide |-> [Block |-> WideBlock]]]
WideType == ImpliedType(WideBlock)

\* The planned states of the default-apply runs: every attribute known or unknown,
\* unknowns inside known lists, maps, sets and objects, and the whole state null or
\* unknown.
PlannedStates ==
  {ObjectVal([s |-> s, n |-> n, b |-> b, m |-> m, l |-> l, st |-> st, o |-> o, d |-> d,
              tu |-> UnknownVal(Tuple(<<String>>))]) :
     s \in {StringVal("x"), UnknownVal(String), NullVal(String)},
     n \in {NumberIntVal(1), UnknownVal(Number)},
     b \in {BoolVal(TRUE), UnknownVal(Bool)},
     m \in {MapVal(String, [a |-> StringVal("x"), b |-> UnknownVal(String)]),
            UnknownVal(Map(String))},
     l \in {ListVal(String, <<StringVal("x"), UnknownVal(String)>>), UnknownVal(List(String))},
     st \in {SetVal(String, {StringVal("x"), UnknownVal(String)}), UnknownVal(Set(String))},
     o \in {ObjectVal([s |-> UnknownVal(String)]), UnknownVal(Object([s |-> String]))},
     d \in {StringVal("x"), UnknownVal(DynamicPseudoType)}}
  \cup {NullVal(WideType), UnknownVal(WideType)}
DefaultApplyRequests ==
  {[TypeName |-> "test_wide", PriorState |-> NullVal(WideType), PlannedState |-> pl,
    Config |-> NullVal(WideType), PlannedPrivate |-> pv] :
     pl \in PlannedStates, pv \in Privates}

\* test_tags { tags = optional map(string) }, beside test_thing: the schema of the
\* round trips through the flatmap.
TagsBlock ==
  [Attributes |-> [tags |-> Attribute(Map(String), FALSE, TRUE, FALSE)], BlockTypes |-> NoNames]
RoundTripSchema ==
  [Provider |-> [Block |-> ProviderBlock],
   DataSources |-> [test_data |-> [Block |-> DataBlock]],
   ResourceTypes |-> [test_thing |-> [Block |-> ThingBlock], test_tags |-> [Block |-> TagsBlock]]]
TagsType == ImpliedType(TagsBlock)

\* The values sent round: states of test_thing and test_tags without unknowns, with
\* null and set attributes, empty strings, nested lists and sets of zero, one and
\* two elements, elements with every attribute null, and the null state.
RoundTripStrings == {NullVal(String), StringVal("x")}
RoundTripDisks ==
  {ListVal(DiskType, <<>>),
   ListVal(DiskType, <<Disk(NullVal(String), NullVal(String))>>),
   ListVal(DiskType, <<Disk(StringVal("x"), StringVal(""))>>),
   ListVal(DiskType, <<Disk(StringVal("x"), NullVal(String)), Disk(StringVal("y"), StringVal("x"))>>)}
RoundTripNics ==
  {SetVal(NicType, {}), SetVal(NicType, {Nic(StringVal("x"))}),
   SetVal(NicType, {Nic(NullVal(String))}),
   SetVal(NicType, {Nic(StringVal("x")), Nic(StringVal("y"))})}
RoundTripThings ==
  {Thing(id, name, ami, disk, nic) :
     id \in RoundTripStrings, name \in RoundTripStrings, ami \in RoundTripStrings,
     disk \in RoundTripDisks, nic \in RoundTripNics}
  \cup {NullVal(ThingType)}
RoundTripTags ==
  {ObjectVal([tags |-> NullVal(Map(String))]),
   ObjectVal([tags |-> MapVal(String, <<>>)]),
   ObjectVal([tags |-> MapVal(String, [env |-> StringVal("prod")])])}
RoundTripInputs ==
  {[TypeName |-> "test_thing", ty |-> ThingType, val |-> v] : v \in RoundTripThings}
  \cup {[TypeName |-> "test_tags", ty |-> TagsType, val |-> v] : v \in RoundTripTags}

(***************************************************************************)
(* The state machine: a test and its calls on one MockProvider              *)
(***************************************************************************)
VARIABLES
  p,      \* the MockProvider
  op,     \* the method of the last call ("none" before the first)
  req,    \* the request of the last call
  resp,   \* the response the last call returned
  via,    \* the return statement the last call left by
  calls,  \* the number of calls made
  mu,     \* the sync.Mutex embedded in the MockProvider: TRUE while it is locked
  goroutines  \* the concurrent callers: each one's method, request and position

vars == <<p, op, req, resp, via, calls, mu, goroutines>>

\* No concurrent callers: the calls come one after another from a single goroutine,
\* so the mutex is free whenever a call begins.
NoGoroutines == <<>>

Init ==
  /\ p \in {NewMock(s, f, c) : s \in {Nil, TestSchema}, f \in BOOLEAN, c \in BOOLEAN}
  /\ op = "none"
  /\ req = ZeroRequest
  /\ resp = Nil
  /\ via = "none"
  /\ calls = 0
  /\ mu = FALSE
  /\ goroutines = NoGoroutines

\* One call: the method runs from entry to return under the provider's lock.
Call(opName, r, res) ==
  /\ calls < MaxCalls
  /\ calls' = calls + 1
  /\ p' = res.p
  /\ op' = opName
  /\ req' = r
  /\ resp' = res.resp
  /\ via' = res.via
  /\ UNCHANGED <<mu, goroutines>>

CallGetProviderSchema == Call("GetProviderSchema", ZeroRequest, GetProviderSchema(p))

CallValidateProviderConfig ==
  \E r \in ConfigRequests, out \in FnResponses("ValidateProviderConfig") :
    Call("ValidateProviderConfig", r, ValidateProviderConfig(p, r, out))

CallValidateResourceConfig ==
  \E r \in ValidateResourceConfigRequests, out \in FnResponses("ValidateResourceConfig") :
    Call("ValidateResourceConfig", r, ValidateResourceConfig(p, r, out))

CallValidateDataResourceConfig ==
  \E r \in ValidateDataResourceConfigRequests,
     out \in FnResponses("ValidateDataResourceConfig") :
    Call("ValidateDataResourceConfig", r, ValidateDataResourceConfig(p, r, out))

CallUpgradeResourceState ==
  \E r \in UpgradeResourceStateRequests, out \in FnResponses("UpgradeResourceState") :
    Call("UpgradeResourceState", r, UpgradeResourceState(p, r, out))

CallConfigureProvider ==
  \E r \in ConfigRequests, out \in FnResponses("ConfigureProvider") :
    Call("ConfigureProvider", r, ConfigureProvider(p, r, out))

CallStop == \E out \in FnResponses("Stop") : Call("Stop", ZeroRequest, Stop(p, out))

CallReadResource ==
  \E r \in ReadResourceRequests, out \in FnResponses("ReadResource") :
    Call("ReadResource", r, ReadResource(p, r, out))

CallPlanResourceChange ==
  \E r \in PlanResourceChangeRequests, out \in FnResponses("PlanResourceChange") :
    Call("PlanResourceChange", r, PlanResourceChange(p, r, out))

CallApplyResourceChange ==
  \E r \in ApplyResourceChangeRequests, out \in FnResponses("ApplyResourceChange") :
    Call("ApplyResourceChange", r, ApplyResourceChange(p, r, out))

CallImportResourceState ==
  \E r \in ImportResourceStateRequests, out \in FnResponses("ImportResourceState") :
    Call("ImportResourceState", r, ImportResourceState(p, r, out))

CallMoveResourceState ==
  \E r \in MoveResourceStateRequests, out \in FnResponses("MoveResourceState") :
    Call("MoveResourceState", r, MoveResourceState(p, r, out))

CallReadDataSource ==
  \E r \in ReadDataSourceRequests, out \in FnResponses("ReadDataSource") :
    Call("ReadDataSource", r, ReadDataSource(p, r, out))

CallPlanAction ==
  \E r \in ActionRequests, out \in FnResponses("PlanAction") :
    Call("PlanAction", r, PlanAction(p, r, out))

CallApplyAction ==
  \E r \in ActionRequests, out \in FnResponses("ApplyAction") :
    Call("ApplyAction", r, ApplyAction(p, r, out))

CallCallFunction ==
  \E r \in CallFunctionRequests, out \in FnResponses("CallFunction") :
    Call("CallFunction", r, CallFunction(p, r, out))

CallClose == Call("Close", ZeroRequest, Close(p))

Next ==
  \/ CallGetProviderSchema
  \/ CallValidateProviderConfig
  \/ CallValidateResourceConfig
  \/ CallValidateDataResourceConfig
  \/ CallUpgradeResourceState
  \/ CallConfigureProvider
  \/ CallStop
  \/ CallReadResource
  \/ CallPlanResourceChange
  \/ CallApplyResourceChange
  \/ CallImportResourceState
  \/ CallMoveResourceState
  \/ CallReadDataSource
  \/ CallPlanAction
  \/ CallApplyAction
  \/ CallCallFunction
  \/ CallClose

Spec == Init /\ [][Next]_vars

\* The default plan over its inputs: a mock with the test schema and neither
\* overrides nor canned responses, configured and then asked to plan once.
InitPlan ==
  /\ p = NewMock(TestSchema, FALSE, FALSE)
  /\ op = "none"
  /\ req = ZeroRequest
  /\ resp = Nil
  /\ via = "none"
  /\ calls = 0
  /\ mu = FALSE
  /\ goroutines = NoGoroutines

\* The test of the default plan: it plans one change, after ConfigureProvider.
CallDefaultPlan ==
  /\ p.ConfigureProviderCalled
  /\ ~p.PlanResourceChangeCalled
  /\ \E r \in DefaultPlanRequests, out \in FnResponses("PlanResourceChange") :
       Call("PlanResourceChange", r, PlanResourceChange(p, r, out))

NextPlan == CallConfigureProvider \/ CallDefaultPlan

SpecPlan == InitPlan /\ [][NextPlan]_vars

\* The default apply over its inputs: a mock with the test_wide schema and neither
\* overrides nor canned responses, configured and then asked to apply once.
InitApply ==
  /\ p = NewMock(WideSchema, FALSE, FALSE)
  /\ op = "none"
  /\ req = ZeroRequest
  /\ resp = Nil
  /\ via = "none"
  /\ calls = 0
  /\ mu = FALSE
  /\ goroutines = NoGoroutines

\* The test of the default apply: it applies one change, after ConfigureProvider.
CallDefaultApply ==
  /\ p.ConfigureProviderCalled
  /\ ~p.ApplyResourceChangeCalled
  /\ \E r \in DefaultApplyRequests, out \in FnResponses("ApplyResourceChange") :
       Call("ApplyResourceChange", r, ApplyResourceChange(p, r, out))

NextApply == CallConfigureProvider \/ CallDefaultApply

SpecApply == InitApply /\ [][NextApply]_vars

\* The upgrade of several instances: a mock with or without a schema response,
\* overrides and canned responses, configured at some point and asked to upgrade
\* one raw state after another. The test does not count these calls.
InitUpgrade ==
  /\ p \in {NewMock(schemaResp, withFn, withCanned) :
            schemaResp \in {Nil, TestSchema}, withFn \in BOOLEAN, withCanned \in BOOLEAN}
  /\ op = "none"
  /\ req = ZeroRequest
  /\ resp = Nil
  /\ via = "none"
  /\ calls = 0
  /\ mu = FALSE
  /\ goroutines = NoGoroutines

Uncounted(opName, r, res) ==
  /\ p' = res.p
  /\ op' = opName
  /\ req' = r
  /\ resp' = res.resp
  /\ via' = res.via
  /\ UNCHANGED <<calls, mu, goroutines>>

ConfigureOnce ==
  /\ ~p.ConfigureProviderCalled
  /\ \E r \in ConfigRequests, out \in FnResponses("ConfigureProvider") :
       Uncounted("ConfigureProvider", r, ConfigureProvider(p, r, out))

UpgradeNextInstance ==
  \E r \in UpgradeResourceStateRequests, out \in FnResponses("UpgradeResourceState") :
    Uncounted("UpgradeResourceState", r, UpgradeResourceState(p, r, out))

NextUpgrade == ConfigureOnce \/ UpgradeNextInstance

SpecUpgrade == InitUpgrade /\ [][NextUpgrade]_vars

\* The round trip through the flatmap: a mock with the round-trip schema and
\* neither overrides nor canned responses, configured at some point and asked to
\* upgrade the flatmap encodings of the round-trip values. The test does not count
\* these calls.
InitRoundTrip ==
  /\ p = NewMock(RoundTripSchema, FALSE, FALSE)
  /\ op = "none"
  /\ req = ZeroRequest
  /\ resp = Nil
  /\ via = "none"
  /\ calls = 0
  /\ mu = FALSE
  /\ goroutines = NoGoroutines

UpgradeEncoded ==
  \E in \in RoundTripInputs, out \in FnResponses("UpgradeResourceState") :
    LET r == [TypeName |-> in.TypeName, Version |-> 0, RawStateJSON |-> NoJSON,
              RawStateFlatmap |-> FlatmapValueFromHCL2(in.val, in.ty)]
    IN Uncounted("UpgradeResourceState", r, UpgradeResourceState(p, r, out))

NextRoundTrip == ConfigureOnce \/ UpgradeEncoded

SpecRoundTrip == InitRoundTrip /\ [][NextRoundTrip]_vars

\* Reading through a canned response: a mock with the test schema whose
\* ReadResourceResponse a test has set to some state, private bytes and diagnostics;
\* it is configured at some point and read. The test does not count these calls.
ThingUnset ==
  Thing(StringVal("x"), NullVal(String), NullVal(String),
        ListVal(DiskType, <<>>), SetVal(NicType, {}))
\* Canned states that lack attributes or nested blocks of test_thing, each with the
\* state of test_thing's implied type that has the rest filled in.
PartialStates ==
  {[canned |-> ObjectVal([id |-> StringVal("x")]), coerced |-> ThingUnset],
   [canned |-> ObjectVal([id |-> StringVal("x"), name |-> NullVal(String)]),
    coerced |-> ThingUnset],
   [canned |-> ObjectVal([ami |-> StringVal("x"),
                          disk |-> ListVal(Object([uuid |-> String]),
                                           <<ObjectVal([uuid |-> StringVal("x")])>>)]),
    coerced |-> Thing(NullVal(String), NullVal(String), StringVal("x"),
                      ListVal(DiskType, <<Disk(StringVal("x"), NullVal(String))>>),
                      SetVal(NicType, {}))]}
\* Canned states that are of test_thing's implied type already.
ConformingStates ==
  {ThingState, ThingUnset, NullVal(ThingType),
   Thing(StringVal("x"), NullVal(String), NullVal(String),
         NullVal(List(DiskType)), NullVal(Set(NicType)))}
\* Canned states that are not objects of test_thing's attributes.
ForeignStates ==
  {StringVal("x"), ObjectVal([id |-> StringVal("x"), bogus |-> StringVal("x")])}
ReadCannedStates == {ps.canned : ps \in PartialStates} \cup ConformingStates \cup ForeignStates
ReadCannedResponses ==
  {[NewState |-> s, Private |-> pv, Diagnostics |-> ds] :
     s \in ReadCannedStates, pv \in Privates, ds \in {NoDiags, <<WarnDiag("canned")>>}}

InitRead ==
  /\ p \in {[NewMock(TestSchema, FALSE, FALSE) EXCEPT !.ReadResourceResponse = c] :
              c \in ReadCannedResponses}
  /\ op = "none"
  /\ req = ZeroRequest
  /\ resp = Nil
  /\ via = "none"
  /\ calls = 0
  /\ mu = FALSE
  /\ goroutines = NoGoroutines

ReadCanned ==
  \E r \in ReadResourceRequests, out \in FnResponses("ReadResource") :
    Uncounted("ReadResource", r, ReadResource(p, r, out))

NextRead == ConfigureOnce \/ ReadCanned

SpecRead == InitRead /\ [][NextRead]_vars

\* Importing through a canned response: a mock with the test schema whose
\* ImportResourceStateResponse a test has set to up to two imported resources; it is
\* configured at some point and asked to import. The test does not count these
\* calls.
ImportedResources ==
  {[TypeName |-> "test_thing", State |-> ObjectVal([id |-> StringVal("x")])],
   [TypeName |-> "test_thing", State |-> ThingState],
   [TypeName |-> "test_thing", State |-> StringVal("x")],
   [TypeName |-> "unknown_type", State |-> ObjectVal([id |-> StringVal("x")])]}
ImportCannedResponses ==
  {[ImportedResources |-> rs, Diagnostics |-> NoDiags] :
     rs \in {<<>>} \cup {<<a>> : a \in ImportedResources}
              \cup {<<a, b>> : a \in ImportedResources, b \in ImportedResources}}

InitImport ==
  /\ p \in {[NewMock(TestSchema, FALSE, FALSE) EXCEPT !.ImportResourceStateResponse = c] :
              c \in ImportCannedResponses}
  /\ op = "none"
  /\ req = ZeroRequest
  /\ resp = Nil
  /\ via = "none"
  /\ calls = 0
  /\ mu = FALSE
  /\ goroutines = NoGoroutines

ImportCanned ==
  \E r \in ImportResourceStateRequests, out \in FnResponses("ImportResourceState") :
    Uncounted("ImportResourceState", r, ImportResourceState(p, r, out))

NextImport == ConfigureOnce \/ ImportCanned

SpecImport == InitImport /\ [][NextImport]_vars

\* Locking in which Stop takes the lock like every other method.
TakesLock_StopToo(opName) == TRUE
\* Locking in which Close takes no lock.
TakesLock_NotClose(opName) == opName \notin {"Stop", "Close"}
\* Locking in which ConfigureProvider takes no lock.
TakesLock_NotConfigure(opName) == opName \notin {"Stop", "ConfigureProvider"}

\* Concurrent callers. Every method but Stop begins with p.Lock() and defers
\* p.Unlock(); Stop takes no lock.
TakesLock(opName) == opName # "Stop"

\* Unlocking written out before each return statement, and forgotten before the
\* return of the ConfigureProviderCalled check.
Unlocks_NotAtGate(opName, path) == TakesLock(opName) /\ path # "gate"

\* defer p.Unlock(): a method that locked unlocks when it returns, whatever return
\* statement it leaves by.
Unlocks(opName, path) == TakesLock(opName)

Operations ==
  {"GetProviderSchema", "ValidateProviderConfig", "ValidateResourceConfig",
   "ValidateDataResourceConfig", "UpgradeResourceState", "ConfigureProvider", "Stop",
   "ReadResource", "PlanResourceChange", "ApplyResourceChange", "ImportResourceState",
   "MoveResourceState", "ReadDataSource", "PlanAction", "ApplyAction", "CallFunction",
   "Close"}

\* The requests the concurrent callers make of each method: one of a registered
\* type each.
RequestsOf(opName) ==
  CASE opName \in {"ValidateProviderConfig", "ConfigureProvider"} -> ConfigRequests
    [] opName = "ValidateResourceConfig" ->
         {r \in ValidateResourceConfigRequests :
            r.TypeName = "test_thing" /\ r.Config = ThingConfig}
    [] opName = "ValidateDataResourceConfig" ->
         {r \in ValidateDataResourceConfigRequests :
            r.TypeName = "test_data" /\ r.Config = DataConfig}
    [] opName = "UpgradeResourceState" ->
         {r \in UpgradeResourceStateRequests :
            /\ r.TypeName = "test_thing"
            /\ r.RawStateJSON = ValidJSON
            /\ r.RawStateFlatmap = Nil}
    [] opName = "ReadResource" ->
         {r \in ReadResourceRequests : r.TypeName = "test_thing" /\ r.Private = Abc}
    [] opName = "PlanResourceChange" ->
         {r \in PlanResourceChangeRequests :
            /\ r.TypeName = "test_thing"
            /\ r.ProposedNewState = ThingProposed
            /\ r.PriorPrivate = Abc}
    [] opName = "ApplyResourceChange" ->
         {r \in ApplyResourceChangeRequests :
            /\ r.TypeName = "test_thing"
            /\ r.PlannedState = ThingPlanned
            /\ r.PlannedPrivate = Abc}
    [] opName = "ImportResourceState" ->
         {r \in ImportResourceStateRequests : r.TypeName = "test_thing"}
    [] opName = "MoveResourceState" ->
         {r \in MoveResourceStateRequests : r.TargetTypeName = "test_thing"}
    [] opName = "ReadDataSource" ->
         {r \in ReadDataSourceRequests : r.TypeName = "test_data"}
    [] opName \in {"PlanAction", "ApplyAction"} ->
         {r \in ActionRequests : r.TypeName = "test_action"}
    [] opName = "CallFunction" -> CallFunctionRequests
    [] OTHER -> {ZeroRequest}

\* The body of a method, between its p.Lock() and its return.
Dispatch(opName, m, r, fnResp) ==
  CASE opName = "GetProviderSchema" -> GetProviderSchema(m)
    [] opName = "ValidateProviderConfig" -> ValidateProviderConfig(m, r, fnResp)
    [] opName = "ValidateResourceConfig" -> ValidateResourceConfig(m, r, fnResp)
    [] opName = "ValidateDataResourceConfig" -> ValidateDataResourceConfig(m, r, fnResp)
    [] opName = "UpgradeResourceState" -> UpgradeResourceState(m, r, fnResp)
    [] opName = "ConfigureProvider" -> ConfigureProvider(m, r, fnResp)
    [] opName = "Stop" -> Stop(m, fnResp)
    [] opName = "ReadResource" -> ReadResource(m, r, fnResp)
    [] opName = "PlanResourceChange" -> PlanResourceChange(m, r, fnResp)
    [] opName = "ApplyResourceChange" -> ApplyResourceChange(m, r, fnResp)
    [] opName = "ImportResourceState" -> ImportResourceState(m, r, fnResp)
    [] opName = "MoveResourceState" -> MoveResourceState(m, r, fnResp)
    [] opName = "ReadDataSource" -> ReadDataSource(m, r, fnResp)
    [] opName = "PlanAction" -> PlanAction(m, r, fnResp)
    [] opName = "ApplyAction" -> ApplyAction(m, r, fnResp)
    [] opName = "CallFunction" -> CallFunction(m, r, fnResp)
    [] opName = "Close" -> Close(m)

Goroutines == {"g1", "g2"}
Idle == [pc |-> "idle", op |-> "none", req |-> ZeroRequest, resp |-> Nil, via |-> "none"]

\* Two goroutines share one mock with the test schema, with or without override
\* functions, and each makes one call of any method.
InitLock ==
  /\ p \in {NewMock(TestSchema, f, FALSE) : f \in BOOLEAN}
  /\ op = "none"
  /\ req = ZeroRequest
  /\ resp = Nil
  /\ via = "none"
  /\ calls = 0
  /\ mu = FALSE
  /\ goroutines = [g \in Goroutines |-> Idle]

\* A goroutine calls a method: it is at the method's p.Lock(), or at its first
\* statement if the method takes no lock.
Begin(g) ==
  /\ goroutines[g].pc = "idle"
  /\ \E o \in Operations : \E r \in RequestsOf(o) :
       goroutines' = [goroutines EXCEPT ![g] =
                        [pc |-> IF TakesLock(o) THEN "lock" ELSE "body",
                         op |-> o, req |-> r, resp |-> Nil, via |-> "none"]]
  /\ UNCHANGED <<p, op, req, resp, via, calls, mu>>

\* p.Lock() returns once the mutex is free.
Lock(g) ==
  /\ goroutines[g].pc = "lock"
  /\ ~mu
  /\ mu' = TRUE
  /\ goroutines' = [goroutines EXCEPT ![g].pc = "body"]
  /\ UNCHANGED <<p, op, req, resp, via, calls>>

\* The statements of the method up to its return or to its call of the override
\* function. They read and write the fields of the mock.
Body(g) ==
  /\ goroutines[g].pc = "body"
  /\ \E out \in FnResponses(goroutines[g].op) :
       LET res == Dispatch(goroutines[g].op, p, goroutines[g].req, out)
       IN /\ p' = res.p
          /\ goroutines' = [goroutines EXCEPT ![g].pc = IF res.via = "fn" THEN "fn" ELSE "return",
                                              ![g].resp = res.resp,
                                              ![g].via = res.via]
  /\ UNCHANGED <<op, req, resp, via, calls, mu>>

\* The override function returns. It may take as long as it likes, or block until
\* it is cancelled.
FnReturn(g) ==
  /\ goroutines[g].pc = "fn"
  /\ goroutines' = [goroutines EXCEPT ![g].pc = "return"]
  /\ UNCHANGED <<p, op, req, resp, via, calls, mu>>

\* The method returns; the deferred p.Unlock() runs if the method locked.
Return(g) ==
  /\ goroutines[g].pc = "return"
  /\ mu' = IF Unlocks(goroutines[g].op, goroutines[g].via) THEN FALSE ELSE mu
  /\ goroutines' = [goroutines EXCEPT ![g].pc = "done"]
  /\ op' = goroutines[g].op
  /\ req' = goroutines[g].req
  /\ resp' = goroutines[g].resp
  /\ via' = goroutines[g].via
  /\ UNCHANGED <<p, calls>>

NextLock == \E g \in Goroutines : Begin(g) \/ Lock(g) \/ Body(g) \/ FnReturn(g) \/ Return(g)

SpecLock == InitLock /\ [][NextLock]_vars

\* The scheduler runs every goroutine that can take a step; an override function
\* of a method other than Stop need not return.
SpecLockFair ==
  /\ SpecLock
  /\ \A g \in Goroutines :
       /\ WF_vars(Lock(g))
       /\ WF_vars(Body(g))
       /\ WF_vars(Return(g))
       /\ WF_vars(FnReturn(g) /\ goroutines[g].op = "Stop")

\* The return paths under the lock: two goroutines share a mock with the test
\* schema, with or without overrides and canned responses, and each makes one call of
\* ConfigureProvider, UpgradeResourceState, PlanResourceChange or
\* ImportResourceState with any of the requests of the protocol runs, so that the
\* gate, the schema lookup, the decoders, the override, the canned response and the
\* default are all left by.
PathOperations ==
  {"ConfigureProvider", "UpgradeResourceState", "PlanResourceChange", "ImportResourceState"}
PathRequests(opName) ==
  CASE opName = "ConfigureProvider" -> ConfigRequests
    [] opName = "UpgradeResourceState" -> UpgradeResourceStateRequests
    [] opName = "PlanResourceChange" -> PlanResourceChangeRequests
    [] opName = "ImportResourceState" -> ImportResourceStateRequests

InitPaths ==
  /\ p \in {NewMock(TestSchema, f, c) : f \in BOOLEAN, c \in BOOLEAN}
  /\ op = "none"
  /\ req = ZeroRequest
  /\ resp = Nil
  /\ via = "none"
  /\ calls = 0
  /\ mu = FALSE
  /\ goroutines = [g \in Goroutines |-> Idle]

BeginPath(g) ==
  /\ goroutines[g].pc = "idle"
  /\ \E o \in PathOperations : \E r \in PathRequests(o) :
       goroutines' = [goroutines EXCEPT ![g] =
                        [pc |-> IF TakesLock(o) THEN "lock" ELSE "body",
                         op |-> o, req |-> r, resp |-> Nil, via |-> "none"]]
  /\ UNCHANGED <<p, op, req, resp, via, calls, mu>>

NextPaths ==
  \E g \in Goroutines : BeginPath(g) \/ Lock(g) \/ Body(g) \/ FnReturn(g) \/ Return(g)

\* The scheduler runs every goroutine that can take a step, and every override
\* function returns.
SpecPathsFair ==
  /\ InitPaths /\ [][NextPaths]_vars
  /\ \A g \in Goroutines :
       WF_vars(Lock(g)) /\ WF_vars(Body(g)) /\ WF_vars(FnReturn(g)) /\ WF_vars(Return(g))

(***************************************************************************)
(* The validate command (command/validate.go)                               *)
(***************************************************************************)
\* What the command writes to its Ui: nothing, the usage text, the JSON document, or
\* the diagnostics with a closing line.
NoOutput == [k |-> "none"]
Usage == [k |-> "usage"]

\* ValidateCommand.showResults with the result code taken from the number of
\* diagnostics instead of their severity.
showResults_AnyDiagFails(diags, jsonOutput) ==
  [code |-> IF Len(diags) > 0 THEN 1 ELSE 0, diags |-> diags, output |-> NoOutput]

\* ValidateCommand.showResults: prints the diagnostics as JSON or for a human, and
\* returns 1 if there is an error among them and 0 otherwise.
showResults(diags, jsonOutput) ==
  LET errors == {i \in DOMAIN diags : diags[i].severity = "error"}
      warnings == {i \in DOMAIN diags : diags[i].severity = "warning"}
      output ==
        IF jsonOutput
        THEN [k |-> "json", Valid |-> errors = {}, ErrorCount |-> Cardinality(errors),
              WarningCount |-> Cardinality(warnings), Diagnostics |-> diags]
        ELSE IF Len(diags) = 0 THEN [k |-> "human", shown |-> NoDiags, closing |-> "valid"]
        ELSE [k |-> "human", shown |-> diags,
              closing |-> IF ~HasError(diags) THEN "valid, with warnings" ELSE "none"]
  IN [code |-> IF HasError(diags) THEN 1 ELSE 0, diags |-> diags, output |-> output]

\* ValidateCommand.validate: the diagnostics of loading the configuration.
validate(cfgDiags) == NoDiags \o cfgDiags

\* ValidateCommand.Run on what its environment does: whether Meta.process, the flag
\* parser, filepath.Abs and loadPluginPath fail, the -json flag, and the diagnostics
\* of loading the configuration.
Run(in) ==
  IF in.processErr THEN [code |-> 1, diags |-> NoDiags, output |-> NoOutput]
  ELSE IF in.parseErr THEN [code |-> 1, diags |-> NoDiags, output |-> Usage]
  ELSE IF in.absErr
    THEN showResults(Append(NoDiags, ErrDiag("unable to locate module")), in.jsonOutput)
  ELSE IF in.pluginPathErr
    THEN showResults(Append(NoDiags, ErrDiag("error loading plugin path")), in.jsonOutput)
  ELSE showResults(NoDiags \o validate(in.cfgDiags), in.jsonOutput)

\* The diagnostics loading a configuration may report, with and without a source
\* range.
ConfigDiags ==
  {ErrDiag("invalid configuration"), WarnDiag("deprecated"),
   [severity |-> "error", summary |-> "invalid block", subject |-> "main.tf"],
   [severity |-> "warning", summary |-> "deprecated block", subject |-> "main.tf"]}
RECURSIVE SeqsUpTo(_, _)
SeqsUpTo(S, n) ==
  IF n = 0 THEN {<<>>}
  ELSE LET shorter == SeqsUpTo(S, n - 1)
       IN shorter \cup {Append(q, x) : q \in shorter, x \in S}
RunInputs ==
  {[processErr |-> FALSE, parseErr |-> FALSE, absErr |-> FALSE, pluginPathErr |-> FALSE,
    jsonOutput |-> j, cfgDiags |-> ds] : j \in BOOLEAN, ds \in SeqsUpTo(ConfigDiags, MaxDiags)}
  \cup {[processErr |-> pe, parseErr |-> fe, absErr |-> ae, pluginPathErr |-> le,
         jsonOutput |-> j, cfgDiags |-> NoDiags] :
          pe \in BOOLEAN, fe \in BOOLEAN, ae \in BOOLEAN, le \in BOOLEAN, j \in BOOLEAN}

\* The command line: no provider is involved, and every run is on its own.
InitValidate ==
  /\ p = Nil
  /\ op = "none"
  /\ req = ZeroRequest
  /\ resp = Nil
  /\ via = "none"
  /\ calls = 0
  /\ mu = FALSE
  /\ goroutines = NoGoroutines

RunValidate ==
  \E in \in RunInputs :
    /\ op' = "ValidateCommand.Run"
    /\ req' = in
    /\ resp' = Run(in)
    /\ via' = IF in.processErr \/ in.parseErr THEN "return 1" ELSE "showResults"
    /\ UNCHANGED <<p, calls, mu, goroutines>>

NextValidate == RunValidate

SpecValidate == InitValidate /\ [][NextValidate]_vars

(***************************************************************************)
(* Properties                                                               *)
(***************************************************************************)
\* The instance-level operations the call-ordering state machine forbids before
\* ConfigureProvider.
GatedOps ==
  {"ReadResource", "PlanResourceChange", "ApplyResourceChange", "ImportResourceState",
   "ReadDataSource", "PlanAction", "ApplyAction"}

\* The zero response of an operation's response type.
ZeroResponse(opName) ==
  CASE opName = "ReadResource" -> ZeroReadResourceResponse
    [] opName = "PlanResourceChange" -> ZeroPlanResourceChangeResponse
    [] opName = "ApplyResourceChange" -> ZeroApplyResourceChangeResponse
    [] opName = "ImportResourceState" -> ZeroImportResourceStateResponse
    [] opName = "ReadDataSource" -> ZeroReadDataSourceResponse
    [] opName = "UpgradeResourceState" -> ZeroUpgradeResourceStateResponse
    [] opName = "MoveResourceState" -> ZeroMoveResourceStateResponse
    [] OTHER -> ZeroDiagnosticsResponse

\* C1: for each of the seven gated operations and every request, the response
\* carries a "Configure not called" error exactly when ConfigureProvider has not
\* been called before the call: always before, never after.
C1_OrderingGate ==
  op \in GatedOps =>
    /\ ~p.ConfigureProviderCalled =>
         \E i \in DOMAIN resp.Diagnostics :
           IsGateDiag(resp.Diagnostics[i]) /\ resp.Diagnostics[i].severity = "error"
    /\ p.ConfigureProviderCalled => ~HasGateDiag(resp.Diagnostics)

C1_Witness ==
  /\ op = "ReadDataSource"
  /\ ~p.ConfigureProviderCalled
  /\ HasGateDiag(resp.Diagnostics)
  /\ p.ReadDataSourceFn # Nil

\* C2: a gated operation called before ConfigureProvider returns the zero
\* response with exactly one diagnostic, which names the operation and the
\* request's type name: nothing of the override's result, of the canned response
\* or of the default algorithm is in it.
C2_GateRejection ==
  (op \in GatedOps /\ ~p.ConfigureProviderCalled) =>
    /\ via = "gate"
    /\ resp = [ZeroResponse(op) EXCEPT
                 !.Diagnostics = <<[severity |-> "error",
                                    summary |-> "Configure not called before",
                                    op |-> op, typeName |-> req.TypeName]>>]

C2_Witness ==
  /\ op = "ApplyResourceChange"
  /\ ~p.ConfigureProviderCalled
  /\ Len(resp.Diagnostics) = 1
  /\ resp.NewState = NilVal
  /\ ~IsNull(req.PlannedState)
  /\ req.PlannedPrivate = Abc
  /\ p.ApplyResourceChangeFn = Nil
  /\ p.ApplyResourceChangeResponse = Nil

\* Whether ConfigureProvider has been called on a mock whose ConfigureProvider
\* always answers with error diagnostics (no override, a canned response with an
\* error).
ConfiguredWithErrors ==
  /\ p.ConfigureProviderRequest # ZeroRequest
  /\ p.ConfigureProviderFn = Nil
  /\ p.ConfigureProviderResponse # Nil
  /\ HasError(p.ConfigureProviderResponse.Diagnostics)

\* C3: once a ConfigureProvider call has returned error diagnostics (from the
\* override or from the canned response), no later gated operation is rejected
\* with "Configure not called".
C3_GateOpensOnAttempt ==
  [][((op = "ConfigureProvider" /\ HasError(resp.Diagnostics)) \/ ConfiguredWithErrors)
       => (op' \in GatedOps => (via' # "gate" /\ ~HasGateDiag(resp'.Diagnostics)))]_vars

C3_Witness ==
  /\ ConfiguredWithErrors
  /\ op = "PlanResourceChange"
  /\ via = "canned"
  /\ ~HasGateDiag(resp.Diagnostics)

\* The state ValidFlatmap spells for test_thing.
UpgradedThing ==
  Thing(StringVal("x"), NullVal(String), NullVal(String),
        ListVal(DiskType, <<Disk(StringVal("x"), StringVal("x"))>>), SetVal(NicType, {}))

\* A call of UpgradeResourceState for a registered type with a valid flatmap, on a
\* mock without an override or a canned response for it.
UpgradeOfValidState ==
  /\ op = "UpgradeResourceState"
  /\ req.TypeName \in DOMAIN getProviderSchema(p).ResourceTypes
  /\ req.RawStateFlatmap = ValidFlatmap
  /\ p.UpgradeResourceStateFn = Nil
  /\ p.UpgradeResourceStateResponse = Nil

\* C4 as claimed: UpgradeResourceState in the Unconfigured state, for a registered
\* type with valid raw state, returns the upgraded state and no ordering
\* diagnostic.
C4_UpgradeExempt ==
  (UpgradeOfValidState /\ ~p.ConfigureProviderCalled) =>
    /\ ~HasGateDiag(resp.Diagnostics)
    /\ resp.UpgradedState = UpgradedThing

\* C4 as amended: UpgradeResourceState is behind the gate like the instance
\* operations. Before ConfigureProvider every call returns the zero response with
\* the one "Configure not called before UpgradeResourceState" error; after it, a
\* registered type with valid raw state is upgraded, without diagnostics.
C4_UpgradeGated ==
  op = "UpgradeResourceState" =>
    /\ ~p.ConfigureProviderCalled =>
         resp = [ZeroUpgradeResourceStateResponse EXCEPT
                   !.Diagnostics = <<ConfigureNotCalled("UpgradeResourceState", req.TypeName)>>]
    /\ (p.ConfigureProviderCalled /\ UpgradeOfValidState) =>
         resp = [UpgradedState |-> UpgradedThing, Diagnostics |-> NoDiags]

C4_Witness ==
  /\ UpgradeOfValidState
  /\ ~p.ConfigureProviderCalled
  /\ HasGateDiag(resp.Diagnostics)
  /\ resp.UpgradedState = NilVal

\* The operations the call-ordering state machine exempts from the gate (C5).
ExemptOps ==
  {"GetProviderSchema", "ValidateProviderConfig", "ValidateResourceConfig", "CallFunction",
   "Stop"}

\* The result of an exempt operation on mock m.
ExemptCall(opName, m, r, out) ==
  CASE opName = "GetProviderSchema" -> GetProviderSchema(m)
    [] opName = "ValidateProviderConfig" -> ValidateProviderConfig(m, r, out)
    [] opName = "ValidateResourceConfig" -> ValidateResourceConfig(m, r, out)
    [] opName = "CallFunction" -> CallFunction(m, r, out)
    [] opName = "Stop" -> Stop(m, out)

\* C5: a call of GetProviderSchema, ValidateProviderConfig, ValidateResourceConfig,
\* CallFunction or Stop never leaves by the gate and never carries a "Configure not
\* called" diagnostic, and what it returns is what the same call returns on the
\* same mock with ConfigureProvider already called.
C5_ExemptFromGate ==
  [][op' \in ExemptOps =>
       /\ via' # "gate"
       /\ (op' \in {"ValidateProviderConfig", "ValidateResourceConfig"}
             => ~HasGateDiag(resp'.Diagnostics))
       /\ \E out \in FnResponses(op') :
            LET configured == ExemptCall(op', [p EXCEPT !.ConfigureProviderCalled = TRUE],
                                         req', out)
            IN configured.resp = resp' /\ configured.via = via']_vars

C5_Witness ==
  /\ op = "ValidateResourceConfig"
  /\ ~p.ConfigureProviderCalled
  /\ via = "fn"
  /\ resp \in FnResponses("ValidateResourceConfig")

\* C6 as claimed: MoveResourceState before ConfigureProvider returns an
\* ordering-violation diagnostic instead of the override's or the canned response.
C6_MoveGated ==
  (op = "MoveResourceState" /\ ~p.ConfigureProviderCalled) => HasGateDiag(resp.Diagnostics)

\* C6 as amended: MoveResourceState has no gate. In every state, Unconfigured
\* included, it records the call and returns the override's result if an override
\* is set, else the canned response if one is set, else the zero response, and
\* never an ordering-violation diagnostic.
C6_MoveNotGated ==
  op = "MoveResourceState" =>
    /\ p.MoveResourceStateCalled
    /\ p.MoveResourceStateRequest = req
    /\ ~HasGateDiag(resp.Diagnostics)
    /\ IF p.MoveResourceStateFn # Nil THEN resp \in FnResponses("MoveResourceState")
       ELSE IF p.MoveResourceStateResponse # Nil THEN resp = p.MoveResourceStateResponse
       ELSE resp = ZeroMoveResourceStateResponse

C6_Witness ==
  /\ op = "MoveResourceState"
  /\ ~p.ConfigureProviderCalled
  /\ p.MoveResourceStateFn = Nil
  /\ p.MoveResourceStateResponse # Nil
  /\ resp = p.MoveResourceStateResponse

\* C7 as claimed: PlanResourceChange with a null proposedNewState returns
\* plannedState = null and plannedPrivate = priorPrivate whatever the state and the
\* configuration of the mock.
C7_DestroyPlanUnconditional ==
  (op = "PlanResourceChange" /\ IsNull(req.ProposedNewState)) =>
    /\ resp.PlannedState = req.ProposedNewState
    /\ resp.PlannedPrivate = req.PriorPrivate

\* C7 as amended: when the call passes the gate and neither PlanResourceChangeFn
\* nor PlanResourceChangeResponse is set, PlanResourceChange with a null
\* proposedNewState returns plannedState = null, plannedPrivate = priorPrivate and
\* no diagnostics, for every type name (registered or not) and every priorPrivate.
C7_DestroyPlanIdentity ==
  (/\ op = "PlanResourceChange"
   /\ IsNull(req.ProposedNewState)
   /\ p.ConfigureProviderCalled
   /\ p.PlanResourceChangeFn = Nil
   /\ p.PlanResourceChangeResponse = Nil) =>
    resp = [PlannedState |-> NullVal(ThingType), PlannedPrivate |-> req.PriorPrivate,
            Diagnostics |-> NoDiags]

C7_Witness ==
  /\ op = "PlanResourceChange"
  /\ IsNull(req.ProposedNewState)
  /\ req.TypeName = "unknown_type"
  /\ req.PriorPrivate = Abc
  /\ via = "default"
  /\ resp.PlannedPrivate = Abc
  /\ resp.PlannedState = NullVal(ThingType)

\* A default plan of a known, non-null proposed state: the call got past the gate,
\* the override, the canned response and the destroy check, and cty.Transform ran.
DefaultPlanRan ==
  /\ op = "PlanResourceChange"
  /\ via = "default"
  /\ req.TypeName = "test_thing"
  /\ req.ProposedNewState.k = "object"
  /\ resp.PlannedState.k = "object"

proposed == req.ProposedNewState.attrs
planned == resp.PlannedState.attrs
config == req.Config.attrs

\* C8: in the default plan every computed-only attribute (id, disk[i].uuid, the mac
\* of a nic) that is a known null in proposedNewState is unknown, of the same type,
\* in plannedState.
C8_ComputedOnlyUnknown ==
  DefaultPlanRan =>
    /\ IsNull(proposed.id) => planned.id = UnknownVal(String)
    /\ \A i \in DOMAIN proposed.disk.elems :
         IsNull(proposed.disk.elems[i].attrs.uuid)
           => planned.disk.elems[i].attrs.uuid = UnknownVal(String)
    /\ \A e \in proposed.nic.elems :
         IsNull(e.attrs.mac) => /\ Nic(UnknownVal(String)) \in planned.nic.elems
                                /\ Nic(NullVal(String)) \notin planned.nic.elems

\* The plan in which C8 fails: the config is set, a nic block's computed-only mac is
\* null in the proposed state, and it is still null in the planned state.
C8_Witness ==
  /\ DefaultPlanRan
  /\ req.Config.k = "object"
  /\ Nic(NullVal(String)) \in proposed.nic.elems
  /\ Nic(NullVal(String)) \in planned.nic.elems
  /\ resp.Diagnostics = NoDiags

\* The prior state sets name, the config leaves it null.
NameSetThenUnset ==
  /\ DefaultPlanRan
  /\ req.PriorState.k = "object"
  /\ ~IsNull(req.PriorState.attrs.name)
  /\ req.Config.k = "object"
  /\ IsNull(config.name)

\* C9 as claimed: an optional+computed attribute set in the prior state and null in
\* the config is unknown in plannedState, for every proposedNewState.
C9_UnknownForEveryProposed == NameSetThenUnset => planned.name = UnknownVal(String)

\* C9 as amended: the default plan never reads the prior state. An optional+computed
\* attribute that is set in the prior state and null in the config is unknown in
\* plannedState when its value in proposedNewState is non-null; when
\* proposedNewState has null for it, plannedState has null too.
C9_UnknownWhenProposedSet ==
  NameSetThenUnset =>
    planned.name = IF IsNull(proposed.name) THEN NullVal(String) ELSE UnknownVal(String)

C9_Witness ==
  /\ NameSetThenUnset
  /\ req.PriorState.attrs.name = StringVal("x")
  /\ proposed.name = StringVal("x")
  /\ planned.name = UnknownVal(String)

\* The path disk[i].label can be applied to the config: the config is not null and
\* its disk list has an element i.
LabelResolves(i) ==
  /\ req.Config.k = "object"
  /\ config.disk.k = "list"
  /\ i \in DOMAIN config.disk.elems

\* C10: in the default plan an optional+computed attribute (name, disk[i].label)
\* that is non-null in proposedNewState while the same path in config is null is
\* unknown in plannedState; when the path cannot be resolved in config (the config
\* is null, or its disk list has no such element) plannedState keeps the proposed
\* value.
C10_SetToUnset ==
  DefaultPlanRan =>
    /\ (req.Config.k = "object" /\ ~IsNull(proposed.name) /\ IsNull(config.name))
         => planned.name = UnknownVal(String)
    /\ req.Config.k # "object" => planned.name = proposed.name
    /\ \A i \in DOMAIN proposed.disk.elems :
         LET label == proposed.disk.elems[i].attrs.label
             plannedLabel == planned.disk.elems[i].attrs.label
         IN /\ (LabelResolves(i) /\ ~IsNull(label)
                  /\ IsNull(config.disk.elems[i].attrs.label))
                 => plannedLabel = UnknownVal(String)
            /\ ~LabelResolves(i) => plannedLabel = label

C10_Witness ==
  /\ DefaultPlanRan
  /\ req.Config.k = "object"
  /\ proposed.name = StringVal("x")
  /\ IsNull(config.name)
  /\ planned.name = UnknownVal(String)
  /\ config.disk.elems = <<>>
  /\ Len(proposed.disk.elems) = 1
  /\ proposed.disk.elems[1].attrs.label = StringVal("x")
  /\ planned.disk.elems[1].attrs.label = StringVal("x")

\* The set-to-unset rule covers the optional+computed value v at a path whose
\* config value is c: v is known and non-null, the path resolves, and c is null.
SetToUnset(v, resolves, c) == IsKnown(v) /\ ~IsNull(v) /\ resolves /\ IsNull(c)

\* C11: in the default plan every value of proposedNewState that neither
\* unknown-propagation rule covers is identical in plannedState: a wholly unknown
\* proposed state, computed-only attributes that are not null (unknown ones
\* included), the optional-only ami, optional+computed attributes outside the
\* set-to-unset rule, and the containers disk and nic (same kind, element type and
\* number of elements).
C11_PlanFrame ==
  /\ (op = "PlanResourceChange" /\ via = "default" /\ req.ProposedNewState.k = "unknown")
       => resp.PlannedState = req.ProposedNewState
  /\ DefaultPlanRan =>
       /\ DOMAIN planned = DOMAIN proposed
       /\ ~IsNull(proposed.id) => planned.id = proposed.id
       /\ planned.ami = proposed.ami
       /\ ~SetToUnset(proposed.name, req.Config.k = "object",
                      IF req.Config.k = "object" THEN config.name ELSE NilVal)
            => planned.name = proposed.name
       /\ planned.disk.k = "list" /\ planned.disk.ety = proposed.disk.ety
       /\ Len(planned.disk.elems) = Len(proposed.disk.elems)
       /\ \A i \in DOMAIN proposed.disk.elems :
            LET pd == proposed.disk.elems[i].attrs
                nd == planned.disk.elems[i].attrs
            IN /\ ~IsNull(pd.uuid) => nd.uuid = pd.uuid
               /\ ~SetToUnset(pd.label, LabelResolves(i),
                              IF LabelResolves(i) THEN config.disk.elems[i].attrs.label
                              ELSE NilVal)
                    => nd.label = pd.label
       /\ planned.nic.k = "set" /\ planned.nic.ety = proposed.nic.ety
       /\ Cardinality(planned.nic.elems) = Cardinality(proposed.nic.elems)
       /\ \A e \in proposed.nic.elems : ~IsNull(e.attrs.mac) => e \in planned.nic.elems

C11_Witness ==
  /\ DefaultPlanRan
  /\ req.Config.k = "object"
  /\ IsNull(config.id)
  /\ proposed.id = StringVal("x") /\ planned.id = StringVal("x")
  /\ proposed.name = UnknownVal(String) /\ planned.name = UnknownVal(String)
  /\ Len(proposed.disk.elems) = 1
  /\ LabelResolves(1)
  /\ config.disk.elems[1].attrs.label = StringVal("x")
  /\ planned.disk.elems[1] = Disk(StringVal("x"), StringVal("x"))
  /\ planned.nic.elems = {Nic(StringVal("x"))}

\* C12: every response of the default plan without diagnostics, destroy or not,
\* has plannedPrivate equal to the request's priorPrivate, byte for byte.
C12_PlannedPrivateCarried ==
  (op = "PlanResourceChange" /\ via = "default" /\ resp.Diagnostics = NoDiags)
    => resp.PlannedPrivate = req.PriorPrivate

C12_Witness ==
  /\ op = "PlanResourceChange"
  /\ via = "default"
  /\ req.ProposedNewState.k = "object"
  /\ req.PriorPrivate = Abc
  /\ resp.Diagnostics = NoDiags
  /\ resp.PlannedPrivate = Abc
  /\ resp.PlannedState.k = "object"

\* v has an unknown value somewhere in its structure.
RECURSIVE ContainsUnknown(_)
ContainsUnknown(v) ==
  CASE v.k = "unknown" -> TRUE
    [] v.k = "list" -> \E i \in DOMAIN v.elems : ContainsUnknown(v.elems[i])
    [] v.k = "set" -> \E e \in v.elems : ContainsUnknown(e)
    [] v.k = "map" -> \E key \in DOMAIN v.elems : ContainsUnknown(v.elems[key])
    [] v.k = "object" -> \E n \in DOMAIN v.attrs : ContainsUnknown(v.attrs[n])
    [] OTHER -> FALSE

\* An apply the default algorithm answered for a planned state that is not null.
DefaultApplyRan ==
  /\ op = "ApplyResourceChange"
  /\ via = "default"
  /\ ~IsNull(req.PlannedState)

\* C13: the newState the default apply returns for a non-null plannedState has no
\* unknown value at any depth.
C13_ApplyTotality == DefaultApplyRan => ~ContainsUnknown(resp.NewState)

C13_Witness ==
  /\ DefaultApplyRan
  /\ req.PlannedState.k = "object"
  /\ req.PlannedState.attrs.st = SetVal(String, {StringVal("x"), UnknownVal(String)})
  /\ req.PlannedState.attrs.o = UnknownVal(Object([s |-> String]))
  /\ req.PlannedState.attrs.d = UnknownVal(DynamicPseudoType)
  /\ resp.NewState.k = "object"
  /\ ~ContainsUnknown(resp.NewState)

\* What the zero-value mapping gives for a planned value v: `zero` when v is
\* unknown, `known` when it is known.
ZeroOr(v, zero, known) == IF v.k = "unknown" THEN zero ELSE known

\* C14: the default apply replaces each unknown of plannedState by "" for a string,
\* 0 for a number, false for a bool, the empty map for a map, the empty list for a
\* list and the typed null for a set, an object, a tuple, the dynamic type; it
\* does so inside known lists, maps, sets and objects, and returns every known
\* value unchanged.
C14_ZeroValues ==
  /\ (DefaultApplyRan /\ req.PlannedState.k = "unknown")
       => resp.NewState = NullVal(WideType)
  /\ (DefaultApplyRan /\ req.PlannedState.k = "object") =>
       LET pl == req.PlannedState.attrs
       IN resp.NewState =
            ObjectVal(
              [s |-> ZeroOr(pl.s, StringVal(""), pl.s),
               n |-> ZeroOr(pl.n, NumberIntVal(0), pl.n),
               b |-> ZeroOr(pl.b, BoolVal(FALSE), pl.b),
               m |-> ZeroOr(pl.m, MapVal(String, <<>>),
                            MapVal(String, [a |-> StringVal("x"), b |-> StringVal("")])),
               l |-> ZeroOr(pl.l, ListVal(String, <<>>),
                            ListVal(String, <<StringVal("x"), StringVal("")>>)),
               st |-> ZeroOr(pl.st, NullVal(Set(String)),
                             SetVal(String, {StringVal("x"), StringVal("")})),
               o |-> ZeroOr(pl.o, NullVal(Object([s |-> String])),
                            ObjectVal([s |-> StringVal("")])),
               d |-> ZeroOr(pl.d, NullVal(DynamicPseudoType), pl.d),
               tu |-> NullVal(Tuple(<<String>>))])

C14_Witness ==
  /\ DefaultApplyRan
  /\ req.PlannedState.k = "object"
  /\ req.PlannedState.attrs.s = UnknownVal(String)
  /\ req.PlannedState.attrs.n = UnknownVal(Number)
  /\ req.PlannedState.attrs.b = UnknownVal(Bool)
  /\ req.PlannedState.attrs.m = UnknownVal(Map(String))
  /\ req.PlannedState.attrs.l = UnknownVal(List(String))
  /\ req.PlannedState.attrs.st = UnknownVal(Set(String))
  /\ resp.NewState.attrs.s = StringVal("")
  /\ resp.NewState.attrs.m = MapVal(String, <<>>)
  /\ resp.NewState.attrs.st = NullVal(Set(String))

\* The last call was a plan (an apply) on a mock that answers it by its default
\* algorithm: configured, with neither an override nor a canned response for it.
DefaultPlanChosen ==
  /\ op = "PlanResourceChange"
  /\ p.ConfigureProviderCalled
  /\ p.PlanResourceChangeFn = Nil
  /\ p.PlanResourceChangeResponse = Nil
DefaultApplyChosen ==
  /\ op = "ApplyResourceChange"
  /\ p.ConfigureProviderCalled
  /\ p.ApplyResourceChangeFn = Nil
  /\ p.ApplyResourceChangeResponse = Nil

\* C15: when the default plan gets a null proposedNewState, or the default apply a
\* null plannedState, the state it returns is that null and the response has no
\* diagnostics, whether the type is registered or not.
C15_DestroyNull ==
  /\ (DefaultPlanChosen /\ IsNull(req.ProposedNewState)) =>
       /\ resp.PlannedState = NullVal(ThingType)
       /\ resp.Diagnostics = NoDiags
  /\ (DefaultApplyChosen /\ IsNull(req.PlannedState)) =>
       /\ resp.NewState = NullVal(ThingType)
       /\ resp.Diagnostics = NoDiags

C15_Witness ==
  /\ DefaultApplyChosen
  /\ req.TypeName = "unknown_type"
  /\ req.PlannedState = NullVal(ThingType)
  /\ req.PriorState = ThingState
  /\ resp.NewState = NullVal(ThingType)
  /\ resp.Diagnostics = NoDiags

\* C16 as claimed: every ApplyResourceChange the default algorithm answers returns
\* private equal to the request's plannedPrivate.
C16_PrivateCarriedAlways ==
  (op = "ApplyResourceChange" /\ via = "default") => resp.Private = req.PlannedPrivate

\* C16 as amended: the default apply returns private equal to plannedPrivate when
\* plannedState is not null; on the destroy path (null plannedState) the response's
\* private is empty, whatever plannedPrivate is.
C16_PrivateCarriedUnlessDestroy ==
  (op = "ApplyResourceChange" /\ via = "default") =>
    resp.Private = IF IsNull(req.PlannedState) THEN NoBytes ELSE req.PlannedPrivate

C16_Witness ==
  /\ DefaultApplyRan
  /\ req.PlannedState.k = "object"
  /\ req.PlannedPrivate = Abc
  /\ resp.Private = Abc
  /\ resp.NewState.k = "object"

\* C17: ValidateResourceConfig for a type name that is not among the schema's
\* resource types returns exactly one diagnostic, the "no schema found" error for
\* that name, in every state of the provider and whether or not an override or a
\* canned response is set.
C17_ValidateUnknownType ==
  (op = "ValidateResourceConfig"
     /\ req.TypeName \notin DOMAIN getProviderSchema(p).ResourceTypes) =>
    /\ resp = [Diagnostics |-> <<NoSchemaFound(req.TypeName)>>]
    /\ resp.Diagnostics[1].severity = "error"

C17_Witness ==
  /\ op = "ValidateResourceConfig"
  /\ req.TypeName = "unknown_type"
  /\ p.GetProviderSchemaResponse # Nil
  /\ ~p.ConfigureProviderCalled
  /\ p.ValidateResourceConfigFn # Nil
  /\ p.ValidateResourceConfigResponse # Nil
  /\ Len(resp.Diagnostics) = 1
  /\ resp.Diagnostics[1] = NoSchemaFound("unknown_type")

\* The config of the last validate call does not encode against the implied type
\* of its (registered) type.
ResourceConfigDoesNotEncode ==
  /\ req.TypeName \in DOMAIN getProviderSchema(p).ResourceTypes
  /\ MarshalErr(req.Config, ImpliedType(getProviderSchema(p).ResourceTypes[req.TypeName].Block))
DataConfigDoesNotEncode ==
  /\ req.TypeName \in DOMAIN getProviderSchema(p).DataSources
  /\ MarshalErr(req.Config, ImpliedType(getProviderSchema(p).DataSources[req.TypeName].Block))

\* C18: ValidateResourceConfig and ValidateDataResourceConfig encode the config
\* against the type's implied type before any override. When the encoding fails
\* the one diagnostic returned is the encoding error, whatever override or canned
\* response is set; the override's result or the canned response is returned only
\* for a registered type whose config encodes.
C18_EncodeBeforeOverride ==
  /\ (op = "ValidateResourceConfig" /\ ResourceConfigDoesNotEncode)
       => resp = [Diagnostics |-> <<ErrDiag("msgpack.Marshal")>>]
  /\ (op = "ValidateDataResourceConfig" /\ DataConfigDoesNotEncode)
       => resp = [Diagnostics |-> <<ErrDiag("msgpack.Marshal")>>]
  /\ (op = "ValidateResourceConfig" /\ via \in {"fn", "canned"})
       => /\ req.TypeName \in DOMAIN getProviderSchema(p).ResourceTypes
          /\ ~ResourceConfigDoesNotEncode
  /\ (op = "ValidateDataResourceConfig" /\ via \in {"fn", "canned"})
       => /\ req.TypeName \in DOMAIN getProviderSchema(p).DataSources
          /\ ~DataConfigDoesNotEncode

C18_Witness ==
  /\ op = "ValidateDataResourceConfig"
  /\ DataConfigDoesNotEncode
  /\ p.ValidateDataResourceConfigFn # Nil
  /\ p.ValidateDataResourceConfigResponse # Nil
  /\ resp.Diagnostics = <<ErrDiag("msgpack.Marshal")>>

\* The last call was an UpgradeResourceState for a type name without a registered
\* resource schema.
UpgradeOfUnknownType ==
  /\ op = "UpgradeResourceState"
  /\ req.TypeName \notin DOMAIN getProviderSchema(p).ResourceTypes

\* C19 as claimed: UpgradeResourceState for a type name without a registered schema
\* returns the "no schema found" error and no upgraded state, with or without an
\* override or a canned response.
C19_UpgradeUnknownType ==
  UpgradeOfUnknownType =>
    resp = [UpgradedState |-> NilVal, Diagnostics |-> <<NoSchemaFound(req.TypeName)>>]

\* C19 as amended: once ConfigureProvider has been called, UpgradeResourceState for
\* a type name without a registered schema returns the one "no schema found" error
\* and no upgraded state, with or without an override or a canned response; before
\* ConfigureProvider the one error it returns is the "Configure not called before
\* UpgradeResourceState" error, still with no upgraded state.
C19_UpgradeUnknownTypeConfigured ==
  UpgradeOfUnknownType =>
    /\ resp.UpgradedState = NilVal
    /\ resp.Diagnostics =
         IF p.ConfigureProviderCalled THEN <<NoSchemaFound(req.TypeName)>>
         ELSE <<ConfigureNotCalled("UpgradeResourceState", req.TypeName)>>

C19_Witness ==
  /\ UpgradeOfUnknownType
  /\ p.GetProviderSchemaResponse # Nil
  /\ p.ConfigureProviderCalled
  /\ p.UpgradeResourceStateFn # Nil
  /\ p.UpgradeResourceStateResponse # Nil
  /\ resp.Diagnostics = <<NoSchemaFound("unknown_type")>>
  /\ resp.UpgradedState = NilVal

\* The raw state of request r does not decode: a bad flatmap, or no flatmap and
\* bad JSON. It decodes: a valid flatmap, or no flatmap and valid JSON.
RawStateBad(r) ==
  \/ r.RawStateFlatmap = BadFlatmap
  \/ r.RawStateFlatmap = Nil /\ r.RawStateJSON = BadJSON
RawStateValid(r) ==
  \/ r.RawStateFlatmap = ValidFlatmap
  \/ r.RawStateFlatmap = Nil /\ r.RawStateJSON = ValidJSON

\* The last call was an UpgradeResourceState that ended in a decode failure.
UpgradeDecodeFailed ==
  /\ op = "UpgradeResourceState"
  /\ RawStateBad(req)
  /\ resp.Diagnostics \in {<<ErrDiag("flatmap")>>, <<ErrDiag("json")>>}

\* C20: on a configured mock without override and canned response, an
\* UpgradeResourceState for a registered type whose raw state does not decode
\* returns one error diagnostic and no upgraded state; and the UpgradeResourceState
\* that follows a decode failure, for a registered type with a valid flatmap or
\* valid JSON, succeeds: no diagnostics, and an upgraded state of the schema's type.
C20_DecodeFailureLocal ==
  /\ [][(/\ op' = "UpgradeResourceState"
         /\ p.ConfigureProviderCalled
         /\ p.UpgradeResourceStateFn = Nil
         /\ p.UpgradeResourceStateResponse = Nil
         /\ req'.TypeName \in DOMAIN getProviderSchema(p).ResourceTypes
         /\ RawStateBad(req'))
        => /\ resp'.UpgradedState = NilVal
           /\ resp'.Diagnostics \in {<<ErrDiag("flatmap")>>, <<ErrDiag("json")>>}
           /\ HasError(resp'.Diagnostics)]_vars
  /\ [][(/\ UpgradeDecodeFailed
         /\ op' = "UpgradeResourceState"
         /\ req'.TypeName \in DOMAIN getProviderSchema(p).ResourceTypes
         /\ RawStateValid(req'))
        => /\ resp'.Diagnostics = NoDiags
           /\ resp'.UpgradedState # NilVal
           /\ Type(resp'.UpgradedState) = ThingType
           /\ req'.RawStateFlatmap = ValidFlatmap => resp'.UpgradedState = UpgradedThing]_vars

C20_Witness ==
  /\ UpgradeDecodeFailed
  /\ req.RawStateFlatmap = BadFlatmap
  /\ req.RawStateJSON = ValidJSON
  /\ resp = [UpgradedState |-> NilVal, Diagnostics |-> <<ErrDiag("flatmap")>>]

\* The last call was, on a configured mock, the upgrade of the flatmap encoding of
\* the round-trip input `in`.
UpgradedEncodingOf(in) ==
  /\ op = "UpgradeResourceState"
  /\ p.ConfigureProviderCalled
  /\ req.TypeName = in.TypeName
  /\ req.RawStateFlatmap = FlatmapValueFromHCL2(in.val, in.ty)

HasEmptySetElement(v) ==
  /\ v.k = "object"
  /\ "nic" \in DOMAIN v.attrs
  /\ \E e \in v.attrs.nic.elems : \A n \in DOMAIN e.attrs : IsNull(e.attrs[n])

ReadUsedCanned ==
  /\ op = "ReadResource"
  /\ p.ConfigureProviderCalled
  /\ p.ReadResourceFn = Nil
  /\ p.ReadResourceResponse # Nil
  /\ req.TypeName \in DOMAIN getProviderSchema(p).ResourceTypes

ImportUsedCanned ==
  /\ op = "ImportResourceState"
  /\ p.ConfigureProviderCalled
  /\ p.ImportResourceStateFn = Nil
  /\ p.ImportResourceStateResponse # Nil

\* C23: every imported resource that ImportResourceState returns from a canned
\* response has its state coerced to the schema of its own type name, on every
\* return path: a returned resource of a registered type has a state of the implied
\* type of that type's schema.
C23_ImportedCoerced ==
  ImportUsedCanned =>
    \A i \in DOMAIN resp.ImportedResources :
      LET res == resp.ImportedResources[i]
          resourceTypes == getProviderSchema(p).ResourceTypes
      IN res.TypeName \in DOMAIN resourceTypes =>
           Type(res.State) = ImpliedType(resourceTypes[res.TypeName].Block)

C23_Witness ==
  /\ ImportUsedCanned
  /\ p.ImportResourceStateResponse.ImportedResources =
       <<[TypeName |-> "test_thing", State |-> ObjectVal([id |-> StringVal("x")])],
         [TypeName |-> "unknown_type", State |-> ObjectVal([id |-> StringVal("x")])]>>
  /\ resp.ImportedResources = p.ImportResourceStateResponse.ImportedResources
  /\ resp.Diagnostics = <<NoSchemaFound("unknown_type")>>

\* The goroutine is inside a call of Stop / has returned from its call.
InStop(g) == goroutines[g].op = "Stop" /\ goroutines[g].pc # "done"
Returned(g) == goroutines[g].pc = "done"
\* The goroutine is inside a method other than Stop, past its p.Lock().
InFlight(g) ==
  goroutines[g].op \notin {"none", "Stop"} /\ goroutines[g].pc \in {"body", "fn", "return"}

\* C24: Stop never blocks on the provider lock: a call of Stop runs to completion
\* and returns in every interleaving, also while another operation holds the lock
\* and is blocked inside its override function for ever.
C24_StopReturns == \A g \in Goroutines : InStop(g) ~> Returned(g)
C24_Witness ==
  /\ mu
  /\ goroutines["g1"].op = "ConfigureProvider"
  /\ goroutines["g1"].pc = "fn"
  /\ goroutines["g2"].op = "Stop"
  /\ goroutines["g2"].pc = "done"
  /\ p.StopCalled

\* C25: mutual exclusion: every operation except Stop acquires the provider's lock
\* at entry and holds it until it returns, so at most one operation other than Stop
\* (its override function included) is executing on the provider at any time.
C25_MutualExclusion ==
  /\ \A g \in DOMAIN goroutines : InFlight(g) => mu
  /\ \A g1, g2 \in DOMAIN goroutines : InFlight(g1) /\ InFlight(g2) => g1 = g2
C25_Witness ==
  /\ mu
  /\ goroutines["g1"].op = "Close"
  /\ goroutines["g1"].pc = "return"
  /\ goroutines["g2"].op = "GetProviderSchema"
  /\ goroutines["g2"].pc = "lock"

\* The call-log fields of the mock: the ...Called flags and the recorded requests.
CalledFields ==
  {"GetProviderSchemaCalled", "ValidateProviderConfigCalled", "ValidateResourceConfigCalled",
   "ValidateDataResourceConfigCalled", "UpgradeResourceStateCalled",
   "ConfigureProviderCalled", "StopCalled", "ReadResourceCalled",
   "PlanResourceChangeCalled", "ApplyResourceChangeCalled", "ImportResourceStateCalled",
   "MoveResourceStateCalled", "ReadDataSourceCalled", "PlanActionCalled",
   "ApplyActionCalled", "CallFunctionCalled", "CloseCalled"}
RequestFields ==
  {"ValidateProviderConfigRequest", "ValidateResourceConfigRequest",
   "ValidateDataResourceConfigRequest", "UpgradeResourceStateRequest",
   "ConfigureProviderRequest", "ReadResourceRequest", "PlanResourceChangeRequest",
   "ApplyResourceChangeRequest", "ImportResourceStateRequest", "MoveResourceStateRequest",
   "ReadDataSourceRequest", "PlanActionRequest", "ApplyActionRequest",
   "CallFunctionRequest"}
CallLogFields == CalledFields \cup RequestFields
\* This step writes the field, and the goroutine that takes the step holds the lock.
Written(field) == p'[field] # p[field]
WrittenUnderLock ==
  /\ mu
  /\ \E g \in DOMAIN goroutines :
       goroutines[g].pc = "body" /\ goroutines'[g].pc # "body" /\ goroutines[g].op # "Stop"

\* C26 as stated: no write to any call-log field happens without the lock held.
C26_EveryLogWriteLocked ==
  [][\A field \in CallLogFields : Written(field) => WrittenUnderLock]_vars
\* C26: every call-log field except StopCalled is written with the lock held, by
\* the goroutine that holds it; StopCalled is written by Stop alone, which takes no
\* lock, so its writes are not synchronised with anything.
C26_LogWritesLocked ==
  [][/\ \A field \in CallLogFields \ {"StopCalled"} : Written(field) => WrittenUnderLock
     /\ Written("StopCalled") =>
          \E g \in DOMAIN goroutines :
            /\ goroutines[g].op = "Stop"
            /\ goroutines[g].pc = "body"
            /\ goroutines'[g].pc # "body"]_vars
C26_Witness ==
  /\ p.ConfigureProviderCalled
  /\ p.ConfigureProviderRequest \in ConfigRequests
  /\ p.StopCalled
  /\ ~mu
  /\ goroutines["g1"].op = "ConfigureProvider"
  /\ goroutines["g1"].pc = "done"
  /\ goroutines["g2"].op = "Stop"
  /\ goroutines["g2"].pc = "done"

\* The response of a call carries no error: the call was accepted.
AcceptedCall(opName, response) ==
  CASE opName \in {"Stop", "Close"} -> response = Nil
    [] opName = "CallFunction" -> response.Err = Nil
    [] opName = "GetProviderSchema" -> TRUE
    [] OTHER -> ~HasError(response.Diagnostics)

\* C27 as stated: after Close has been called no operation on the provider is
\* accepted as valid: every later call is refused with an error.
C27_ClosedRefusesCalls == [][p.CloseCalled => ~AcceptedCall(op', resp')]_vars
\* C27: Close is terminal in the call log: Close sets CloseCalled, nothing resets
\* it (no transition out of Closed), and ConfigureProviderCalled is not reset either.
\* The mock does not refuse the calls made after Close: each is answered as the
\* same call is answered by the same mock with Close not called.
C27_CloseTerminal ==
  /\ [](op = "Close" => p.CloseCalled)
  /\ [][/\ p.CloseCalled => p'.CloseCalled
        /\ p.ConfigureProviderCalled => p'.ConfigureProviderCalled
        /\ p.CloseCalled =>
             \E out \in FnResponses(op') :
               LET open == Dispatch(op', [p EXCEPT !.CloseCalled = FALSE], req', out)
               IN /\ open.resp = resp'
                  /\ open.via = via'
                  /\ p' = [open.p EXCEPT !.CloseCalled = TRUE]]_vars
C27_Witness ==
  /\ p.CloseCalled
  /\ op = "ValidateResourceConfig"
  /\ req.TypeName = "test_thing"
  /\ req.Config = ThingConfig
  /\ via = "default"
  /\ resp.Diagnostics = NoDiags

\* The response of GetProviderSchema on a mock without a canned response.
EmptySchemas ==
  [Provider |-> [Block |-> [Attributes |-> NoNames, BlockTypes |-> NoNames]],
   DataSources |-> NoNames, ResourceTypes |-> NoNames]

\* C28: GetProviderSchema has no preconditions and is idempotent: in any state and
\* after any sequence of other operations it returns the canned response if one is
\* set and empty schemas otherwise, it changes nothing but the
\* GetProviderSchemaCalled flag, and no operation changes the canned response, so
\* every call returns the same schema.
C28_SchemaIdempotent ==
  [][/\ p'.GetProviderSchemaResponse = p.GetProviderSchemaResponse
     /\ op' = "GetProviderSchema" =>
          /\ resp' = IF p.GetProviderSchemaResponse # Nil THEN p.GetProviderSchemaResponse
                     ELSE EmptySchemas
          /\ p' = [p EXCEPT !.GetProviderSchemaCalled = TRUE]]_vars
C28_Witness ==
  /\ op = "GetProviderSchema"
  /\ p.GetProviderSchemaCalled
  /\ p.CloseCalled
  /\ resp = TestSchema

\* The operations that have a built-in default behaviour besides the override and
\* the canned response, and the fields of the mock that hold the latter two.
ThreeWayOps == {"ReadResource", "PlanResourceChange", "ApplyResourceChange"}
FnField(opName) == opName \o "Fn"
ResponseField(opName) == opName \o "Response"
\* The call that has just returned was an accepted call of one of these operations:
\* it passed the gate, and its type has a schema.
ThreeWayAccepted ==
  /\ op \in ThreeWayOps
  /\ p.ConfigureProviderCalled
  /\ req.TypeName \in DOMAIN getProviderSchema(p).ResourceTypes
\* What the built-in default of the operation returns for the call.
BuiltInDefault ==
  Dispatch(op, [p EXCEPT ![ResponseField(op)] = Nil], req, Nil).resp

SchemaMismatch(ds) ==
  \E i \in DOMAIN ds :
    /\ ds[i].severity = "error"
    /\ ds[i].summary \in {"no schema found for", "msgpack.Marshal", "flatmap", "json",
                          "CoerceValue"}
FailedCall(response) ==
  "Diagnostics" \in DOMAIN response /\ SchemaMismatch(response.Diagnostics)

\* C30: failure is locally contained: a call that returns a schema-mismatch error
\* (unknown type, encoding or decode failure) writes nothing to the mock but its
\* call-log fields, so every later call of any operation returns exactly the
\* response it returns on the mock as it was before the failing call, with none of
\* the failing call's diagnostics.
C30_FailureContained ==
  [][FailedCall(resp') =>
       /\ \A field \in (DOMAIN p) \ CallLogFields : p'[field] = p[field]
       /\ \A o \in Operations : \A r \in RequestsOf(o) : \A out \in FnResponses(o) :
            LET later == Dispatch(o, p', r, out)
                without == Dispatch(o, p, r, out)
            IN later.resp = without.resp /\ later.via = without.via]_vars
C30_Witness ==
  /\ p.ValidateResourceConfigCalled
  /\ p.ValidateResourceConfigRequest.TypeName = "unknown_type"
  /\ p.ValidateResourceConfigFn = Nil
  /\ p.ValidateResourceConfigResponse = Nil
  /\ op = "ValidateDataResourceConfig"
  /\ req.TypeName = "test_data"
  /\ req.Config = DataConfig
  /\ resp = [Diagnostics |-> NoDiags]

\* A run of the validate command has ended / has ended through showResults.
RunEnded == op = "ValidateCommand.Run"
RunShowedResults == RunEnded /\ ~req.processErr /\ ~req.parseErr
AnyError(ds) == \E i \in DOMAIN ds : ds[i].severity = "error"

\* C31 as stated: the validate command's result code is non-zero if and only if the
\* aggregated diagnostics contain at least one error.
C31_NonZeroIffError == RunEnded => (resp.code # 0 <=> AnyError(resp.diags))
\* C31: once the arguments are processed and the flags parsed, the validate
\* command's result code is non-zero if and only if the aggregated diagnostics
\* contain at least one error, so warnings alone yield 0, in JSON and in human
\* output alike; a run that fails to process its arguments or to parse its flags
\* returns 1 with no diagnostics aggregated.
C31_ResultCode ==
  /\ RunShowedResults =>
       /\ resp.code \in {0, 1}
       /\ resp.code # 0 <=> AnyError(resp.diags)
       /\ (~req.absErr /\ ~req.pluginPathErr) => resp.diags = req.cfgDiags
  /\ (RunEnded /\ ~RunShowedResults) => resp.code = 1 /\ resp.diags = NoDiags
C31_Witness ==
  /\ RunShowedResults
  /\ req.jsonOutput
  /\ req.cfgDiags = <<WarnDiag("deprecated"), WarnDiag("deprecated"), WarnDiag("deprecated")>>
  /\ resp.code = 0
  /\ resp.output.WarningCount = 3
  /\ resp.output.Valid

\* C32: Stop returns the result of StopFn when one is set and the canned
\* StopResponse otherwise (nil unless a test set it), sets StopCalled and writes
\* nothing else, whatever the state of the provider: not configured, configured, or
\* closed.
C32_StopAlways ==
  [][op' = "Stop" =>
       /\ p' = [p EXCEPT !.StopCalled = TRUE]
       /\ p.StopFn # Nil => resp' \in FnResponses("Stop")
       /\ p.StopFn = Nil => resp' = p.StopResponse]_vars
C32_Witness ==
  /\ op = "Stop"
  /\ p.CloseCalled
  /\ ~p.ConfigureProviderCalled
  /\ p.StopCalled
  /\ p.StopFn = Nil
  /\ p.StopResponse = Error("canned: cannot stop")
  /\ resp = Error("canned: cannot stop")

\* C33: on a configured provider with neither ReadResourceFn nor
\* ReadResourceResponse set, ReadResource returns the request's prior state and
\* private bytes with no diagnostics, whether or not the type name has a schema.
C33_ReadDefault ==
  (/\ op = "ReadResource"
   /\ p.ConfigureProviderCalled
   /\ p.ReadResourceFn = Nil
   /\ p.ReadResourceResponse = Nil)
    => resp = [NewState |-> req.PriorState, Private |-> req.Private, Diagnostics |-> NoDiags]
C33_Witness ==
  /\ op = "ReadResource"
  /\ p.ConfigureProviderCalled
  /\ p.ReadResourceFn = Nil
  /\ p.ReadResourceResponse = Nil
  /\ p.GetProviderSchemaResponse = TestSchema
  /\ req.TypeName = "unknown_type"
  /\ req.Private = Abc
  /\ resp = [NewState |-> ThingState, Private |-> Abc, Diagnostics |-> NoDiags]

\* C34: the configured flag is monotonic: no call, Close, Stop and failing calls
\* included, resets ConfigureProviderCalled, so no call made on a provider whose
\* flag is set is rejected with "Configure not called".
C34_ConfiguredMonotonic ==
  [][p.ConfigureProviderCalled =>
       /\ p'.ConfigureProviderCalled
       /\ via' # "gate"
       /\ "Diagnostics" \in DOMAIN resp' => ~HasGateDiag(resp'.Diagnostics)]_vars
C34_Witness ==
  /\ op = "Close"
  /\ p.CloseCalled
  /\ p.ConfigureProviderCalled
  /\ p.ConfigureProviderRequest \in ConfigRequests

\* The goroutine has called a method and has not returned from it.
Calling(g) == goroutines[g].pc \notin {"idle", "done"}
\* The goroutine holds the lock: it is between the p.Lock() and the return of a
\* method that locks.
Holding(g) ==
  goroutines[g].pc \in {"body", "fn", "return"} /\ goroutines[g].op # "Stop"

\* C35: no lock leak and no deadlock: the mutex is locked only while some call
\* holds it, since every locked method unlocks on every return path (gate rejection,
\* missing schema, decode error, override, canned, default), and with override
\* functions that return, every call of every concurrent caller returns under fair
\* scheduling.
C35_NoLeakNoDeadlock ==
  /\ [](mu => \E g \in DOMAIN goroutines : Holding(g))
  /\ \A g \in Goroutines : Calling(g) ~> Returned(g)
C35_Witness ==
  /\ ~mu
  /\ goroutines["g1"].pc = "done"
  /\ goroutines["g1"].op = "ConfigureProvider"
  /\ goroutines["g2"].pc = "done"
  /\ goroutines["g2"].op = "UpgradeResourceState"
  /\ goroutines["g2"].req.RawStateFlatmap = BadFlatmap
  /\ goroutines["g2"].resp.Diagnostics = <<ErrDiag("flatmap")>>

\* The operations that check ConfigureProviderCalled before they record the call.
GateFirstOps ==
  {"PlanResourceChange", "ImportResourceState", "ReadDataSource", "PlanAction",
   "ApplyAction", "UpgradeResourceState"}
CalledField(opName) == opName \o "Called"
RequestField(opName) == opName \o "Request"

\* C36: a gate-rejected call of PlanResourceChange, ImportResourceState,
\* ReadDataSource, PlanAction, ApplyAction or UpgradeResourceState leaves the mock
\* as it was, its Called flag and its recorded request included, so for these
\* operations a Called flag that is set implies a call that passed the gate.
C36_GateRejectionFrame ==
  /\ [](\A o \in GateFirstOps : p[CalledField(o)] => p.ConfigureProviderCalled)
  /\ [][(op' \in GateFirstOps /\ ~p.ConfigureProviderCalled) =>
          /\ HasGateDiag(resp'.Diagnostics)
          /\ p' = p
          /\ ~p'[CalledField(op')]
          /\ p'[RequestField(op')] = ZeroRequest]_vars
C36_Witness ==
  /\ op = "ImportResourceState"
  /\ calls = 2
  /\ ~p.ConfigureProviderCalled
  /\ ~p.ImportResourceStateCalled
  /\ p.ImportResourceStateRequest = ZeroRequest
  /\ HasGateDiag(resp.Diagnostics)


\* The operations that record the call before they check ConfigureProviderCalled.
RecordFirstOps == {"ReadResource", "ApplyResourceChange"}

\* C37: ReadResource and ApplyResourceChange record the call before the gate: a
\* call on an unconfigured mock sets the operation's Called flag and stores the
\* request, changes nothing else, and answers with the "Configure not called"
\* error.
C37_RecordedBeforeGate ==
  [][(op' \in RecordFirstOps /\ ~p.ConfigureProviderCalled) =>
       /\ p'[CalledField(op')]
       /\ p'[RequestField(op')] = req'
       /\ p' = [p EXCEPT ![CalledField(op')] = TRUE, ![RequestField(op')] = req']
       /\ via' = "gate"
       /\ Len(resp'.Diagnostics) = 1
       /\ HasGateDiag(resp'.Diagnostics)]_vars
C37_Witness ==
  /\ op = "ApplyResourceChange"
  /\ ~p.ConfigureProviderCalled
  /\ p.ApplyResourceChangeCalled
  /\ p.ApplyResourceChangeRequest = req
  /\ req # ZeroRequest
  /\ via = "gate"
  /\ HasGateDiag(resp.Diagnostics)


\* A call of opName on mock m that reaches the built-in default: the mock is
\* configured and has neither an override nor a canned response for it.
ReachesDefault(m, opName) ==
  /\ m.ConfigureProviderCalled
  /\ m[FnField(opName)] = Nil
  /\ m[ResponseField(opName)] = Nil

\* C38: the default plan looks the resource schema up only for a non-destroy plan.
\* For a type with no registered schema, a non-null proposed state returns exactly
\* one "no schema found" error with PlannedState and PlannedPrivate left at their
\* zero values, and a null proposed state returns the destroy plan, without
\* diagnostics.
C38_SchemaOnlyForNonDestroy ==
  [][(/\ op' = "PlanResourceChange"
      /\ ReachesDefault(p, "PlanResourceChange")
      /\ req'.TypeName \notin DOMAIN getProviderSchema(p).ResourceTypes) =>
       IF IsNull(req'.ProposedNewState)
         THEN /\ via' = "default"
              /\ resp'.Diagnostics = NoDiags
              /\ resp'.PlannedState = req'.ProposedNewState
              /\ resp'.PlannedPrivate = req'.PriorPrivate
         ELSE /\ via' = "noschema"
              /\ resp'.Diagnostics = <<NoSchemaFound(req'.TypeName)>>
              /\ resp'.PlannedState = ZeroPlanResourceChangeResponse.PlannedState
              /\ resp'.PlannedPrivate = ZeroPlanResourceChangeResponse.PlannedPrivate]_vars
C38_Witness ==
  /\ op = "PlanResourceChange"
  /\ ReachesDefault(p, "PlanResourceChange")
  /\ req.TypeName = "unknown_type"
  /\ "unknown_type" \notin DOMAIN getProviderSchema(p).ResourceTypes
  /\ IsNull(req.ProposedNewState)
  /\ via = "default"
  /\ resp.Diagnostics = NoDiags
  /\ IsNull(resp.PlannedState)


\* C39: the encoding the default UpgradeResourceState decodes. A flatmap that is
\* supplied is the one decoded, JSON bytes supplied beside it or not; the JSON is
\* decoded only when the flatmap is absent and the JSON is not empty; with neither,
\* the response has no UpgradedState and no diagnostics.
C39_EncodingSelection ==
  [][(/\ op' = "UpgradeResourceState"
      /\ ReachesDefault(p, "UpgradeResourceState")
      /\ req'.TypeName \in DOMAIN getProviderSchema(p).ResourceTypes) =>
       LET schemaType == ImpliedType(getProviderSchema(p).ResourceTypes[req'.TypeName].Block)
           fm == HCL2ValueFromFlatmap(req'.RawStateFlatmap, schemaType)
           js == Unmarshal(req'.RawStateJSON, schemaType)
       IN IF req'.RawStateFlatmap # Nil
            THEN IF fm.err
                   THEN resp' = [UpgradedState |-> NilVal, Diagnostics |-> <<ErrDiag("flatmap")>>]
                 ELSE resp' = [UpgradedState |-> fm.val, Diagnostics |-> NoDiags]
          ELSE IF req'.RawStateJSON # NoJSON
            THEN IF js.err
                   THEN resp' = [UpgradedState |-> NilVal, Diagnostics |-> <<ErrDiag("json")>>]
                 ELSE resp' = [UpgradedState |-> js.val, Diagnostics |-> NoDiags]
          ELSE resp' = [UpgradedState |-> NilVal, Diagnostics |-> NoDiags]]_vars
C39_Witness ==
  /\ op = "UpgradeResourceState"
  /\ ReachesDefault(p, "UpgradeResourceState")
  /\ via = "default"
  /\ req.TypeName = "test_thing"
  /\ req.RawStateFlatmap = ValidFlatmap
  /\ req.RawStateJSON = BadJSON
  /\ resp.Diagnostics = NoDiags
  /\ resp.UpgradedState = HCL2ValueFromFlatmap(ValidFlatmap, ImpliedType(ThingBlock)).val
  /\ resp.UpgradedState # NilVal


\* C40: a default destroy apply (null PlannedState on a configured mock with
\* neither override nor canned response) returns NewState null, no diagnostics and
\* an empty Private: the request's PlannedPrivate is not carried into the response.
C40_DestroyApply ==
  [][(/\ op' = "ApplyResourceChange"
      /\ ReachesDefault(p, "ApplyResourceChange")
      /\ IsNull(req'.PlannedState)) =>
       /\ via' = "default"
       /\ resp'.NewState = req'.PlannedState
       /\ IsNull(resp'.NewState)
       /\ resp'.Diagnostics = NoDiags
       /\ resp'.Private = NoBytes]_vars
C40_Witness ==
  /\ op = "ApplyResourceChange"
  /\ ReachesDefault(p, "ApplyResourceChange")
  /\ via = "default"
  /\ IsNull(req.PlannedState)
  /\ req.PlannedPrivate = Abc
  /\ IsNull(resp.NewState)
  /\ resp.Diagnostics = NoDiags
  /\ resp.Private = NoBytes

=============================================================================
